---- MODULE Spec2Model ----
(***************************************************************************)
(* Omnibooker: the queue synchronizer, the task state machine, the worker  *)
(* loop and the request handlers that change booking tasks.                *)
(*                                                                         *)
(* Instants are counted in half minutes since Monday 2024-01-01 00:00 UTC  *)
(* (datetime.now() is not a whole minute); minutes are written * Minute.   *)
(* A slot's timezone is a fixed offset from UTC.                           *)
(***************************************************************************)
EXTENDS Integers, Sequences, FiniteSets, TLC

VARIABLES now, slot, tasks, nextId, wpc, batch, wtask, manual, requests,
          registry, calls,
          hctx, hpc, hranked, hnext, hcalls, hresult,
          wloop,
          wsync

vars == <<now, slot, tasks, nextId, wpc, batch, wtask, manual, requests, registry, calls,
          hctx, hpc, hranked, hnext, hcalls, hresult, wloop, wsync>>

\* one execution of a provider handler: its context, its position, the ranked
\* candidates, the index of the next attempt, the external calls made so far
\* and the BookingResult it returned
hvars == <<hctx, hpc, hranked, hnext, hcalls, hresult>>

\* the provider registry of booking_engine and the calls made on it
regvars == <<registry, calls>>

\* run_forever: where the loop stands, the number of rows the query of the
\* current pass returned and the sum of the return values of _process_task
loopvars == <<wloop>>

\* the worker's sync_pending_tasks between its queries and its commit: the
\* changes its session holds
syncvars == <<wsync>>

----------------------------------------------------------------------------
(* Bounds of the model *)

\* count passed to sync_pending_tasks by default (the code's default is 6)
QueueCount == 1
\* tasks a worker pass takes (the code's default batch_size is 5)
BatchSize == 2
\* number of task rows ever inserted
MaxId == 2
\* the clock visits the instants ClockAt(0), ..., ClockAt(MaxClock)
MaxClock == 1
\* number of API requests served
MaxRequests == 3
\* count passed to generate_upcoming_tasks (the code's default is 6)
MaxOffsets == 3
\* number of calls made on the provider registry
MaxCalls == 3

----------------------------------------------------------------------------
(* Clock and calendar *)

\* clock ticks in a minute: timedelta(minutes=1)
Minute == 2
Day == 24 * 60 * Minute
Week == 7 * Day
\* the clock starts on Friday 2024-01-05 08:00 UTC
Now0 == 4 * Day + 8 * 60 * Minute

\* an unset integer column or field (instants and day numbers are never negative)
None == 0 - 1
\* an unset error_message
NoMessage == "<null>"
NoTask == 0

\* the instants the clock can show: the start, then for each following week
\* the same time of day and the minute after it
ClockAt(i) == Now0 + ((i + 1) \div 2) * Week + (IF i > 0 /\ i % 2 = 0 THEN Minute ELSE 0)
ClockValues == { ClockAt(i) : i \in 0..MaxClock }

\* datetime.astimezone(tz) / astimezone(timezone.utc) for a fixed-offset zone
ToLocal(t, tz) == t + tz
ToUtc(t, tz) == t - tz

DayIndex(local) == local \div Day
MinuteOfDay(local) == local % Day
\* datetime.weekday(): Monday = 0 ... Sunday = 6
Weekday(local) == DayIndex(local) % 7

IsLeap(y) == (y % 4 = 0 /\ y % 100 # 0) \/ y % 400 = 0
YearLen(y) == IF IsLeap(y) THEN 366 ELSE 365
\* calendar.monthrange(year, month)[1]
monthrange(y, m) ==
    IF m = 2 THEN (IF IsLeap(y) THEN 29 ELSE 28)
    ELSE IF m \in {4, 6, 9, 11} THEN 30 ELSE 31

RECURSIVE DaysBeforeYear(_)
DaysBeforeYear(y) == IF y <= 2024 THEN 0 ELSE DaysBeforeYear(y - 1) + YearLen(y - 1)
RECURSIVE DaysBeforeMonth(_, _)
DaysBeforeMonth(y, m) == IF m <= 1 THEN 0 ELSE DaysBeforeMonth(y, m - 1) + monthrange(y, m - 1)

\* day index of the civil date y-m-d
CivilToDay(y, m, d) == DaysBeforeYear(y) + DaysBeforeMonth(y, m) + (d - 1)
YearOfDay(n) == CHOOSE y \in 2024..2040 : CivilToDay(y, 1, 1) <= n /\ n < CivilToDay(y + 1, 1, 1)
MonthOfDay(n) ==
    LET y == YearOfDay(n)
    IN CHOOSE m \in 1..12 : CivilToDay(y, m, 1) <= n /\ n < CivilToDay(y, m, 1) + monthrange(y, m)

----------------------------------------------------------------------------
(* Recurrence calculator *)

\* variant: the UI weekday is used as a datetime.weekday() value unchanged
slot_day_of_week_unshifted(s) ==
    IF s.day_of_week = None THEN None ELSE s.day_of_week % 7

\* UI weekday (0 = Sunday) to datetime.weekday() (0 = Monday)
slot_day_of_week(s) ==
    IF s.day_of_week = None THEN None
    ELSE LET normalized == s.day_of_week % 7 IN (normalized + 6) % 7

\* variant: the desired day is used whatever the length of the month
safe_day_unclamped(s, y, m) ==
    IF s.day_of_month = None THEN 1 ELSE s.day_of_month

\* min(desired_day, calendar.monthrange(y, m)[1]) with desired_day = day_of_month or 1
safe_day(s, y, m) ==
    LET desired_day == IF s.day_of_month = None THEN 1 ELSE s.day_of_month
    IN  IF desired_day < monthrange(y, m) THEN desired_day ELSE monthrange(y, m)

\* the monthly branch: result.replace(year=year, month=month, day=safe_day)
monthly_on(s, year, month) ==
    ToUtc(CivilToDay(year, month, safe_day(s, year, month)) * Day + s.time, s.timezone)

\* year = total_months // 12, month = total_months % 12 + 1
monthly_at(s, total_months) == monthly_on(s, total_months \div 12, (total_months % 12) + 1)

\* the monthly branch from the base's year by and month bm
monthly_from(s, base_local, offset, by, bm) ==
    LET candidate == CivilToDay(by, bm, safe_day(s, by, bm)) * Day + s.time
        month_delta == IF candidate <= base_local THEN offset + 1 ELSE offset
    IN  monthly_at(s, (by * 12 + bm - 1) + month_delta)

\* variant: two consecutive offsets give the same occurrence
calculate_next_occurrence_repeating(s, base_date, offset) ==
    LET tz == s.timezone
        base_local == ToLocal(base_date, tz)
        result0 == DayIndex(base_local) * Day + s.time
    IN  IF s.frequency \in {"weekly", "fortnightly"}
        THEN LET dow == slot_day_of_week(s)
                 target_day == IF dow = None THEN 0 ELSE dow
                 days_until_next == (target_day - Weekday(base_local) + 7) % 7
                 increment == IF s.frequency = "weekly" THEN 7 ELSE 14
                 result1 == result0 + (days_until_next + (offset \div 2) * increment) * Day
                 result2 == IF result1 <= base_local THEN result1 + increment * Day ELSE result1
             IN  ToUtc(result2, tz)
        ELSE monthly_from(s, base_local, offset \div 2,
                          YearOfDay(DayIndex(base_local)), MonthOfDay(DayIndex(base_local)))

\* _calculate_next_occurrence(slot, base_date, offset)
calculate_next_occurrence(s, base_date, offset) ==
    LET tz == s.timezone
        base_local == ToLocal(base_date, tz)
        \* base_local with hour and minute replaced by the slot's time
        result0 == DayIndex(base_local) * Day + s.time
    IN  IF s.frequency \in {"weekly", "fortnightly"}
        THEN LET dow == slot_day_of_week(s)
                 target_day == IF dow = None THEN 0 ELSE dow
                 days_until_next == (target_day - Weekday(base_local) + 7) % 7
                 increment == IF s.frequency = "weekly" THEN 7 ELSE 14
                 result1 == result0 + (days_until_next + offset * increment) * Day
                 result2 == IF result1 <= base_local THEN result1 + increment * Day ELSE result1
             IN  ToUtc(result2, tz)
        ELSE monthly_from(s, base_local, offset,
                          YearOfDay(DayIndex(base_local)), MonthOfDay(DayIndex(base_local)))

\* variant: the computed instant is returned without the clamp to the reference
calculate_attempt_at_unclamped(s, scheduled_at, reference) ==
    LET tz == s.timezone
        scheduled_local == ToLocal(scheduled_at, tz)
    IN  IF s.attempt_strategy = "release"
        THEN LET release_time == IF s.release_time = None THEN 0 ELSE s.release_time
                 candidate == scheduled_local - s.release_days_before * Day
             IN  ToUtc(DayIndex(candidate) * Day + release_time, tz)
        ELSE LET total_offset == s.attempt_offset_days * 24 * 60
                                 + s.attempt_offset_hours * 60
                                 + s.attempt_offset_minutes
             IN  ToUtc(scheduled_local - total_offset * Minute, tz)

\* variant: the release date and time are taken in UTC, not in the slot's zone
calculate_attempt_at_release_utc(s, scheduled_at, reference) ==
    LET attempt_at ==
            IF s.attempt_strategy = "release"
            THEN LET release_time == IF s.release_time = None THEN 0 ELSE s.release_time
                     candidate == scheduled_at - s.release_days_before * Day
                 IN  DayIndex(candidate) * Day + release_time
            ELSE LET total_offset == s.attempt_offset_days * 24 * 60
                                     + s.attempt_offset_hours * 60
                                     + s.attempt_offset_minutes
                 IN  scheduled_at - total_offset * Minute
    IN  IF attempt_at <= reference THEN reference + Minute ELSE attempt_at

\* calculate_attempt_at with a reference instant
calculate_attempt_at(s, scheduled_at, reference) ==
    LET tz == s.timezone
        scheduled_local == ToLocal(scheduled_at, tz)
        attempt_at ==
            IF s.attempt_strategy = "release"
            THEN LET release_time == IF s.release_time = None THEN 0 ELSE s.release_time
                     candidate == scheduled_local - s.release_days_before * Day
                     attempt_local == DayIndex(candidate) * Day + release_time
                 IN  ToUtc(attempt_local, tz)
            ELSE LET total_offset == s.attempt_offset_days * 24 * 60
                                     + s.attempt_offset_hours * 60
                                     + s.attempt_offset_minutes
                 IN  ToUtc(scheduled_local - total_offset * Minute, tz)
        min_allowed == reference + Minute
    IN  IF attempt_at <= reference THEN min_allowed ELSE attempt_at

----------------------------------------------------------------------------
(* Slots *)

\* recurrence and timing settings a request can give a slot
SlotConfigs ==
    { \* Friday 09:00 at UTC+1, attempted 14 days before the occurrence
      [frequency |-> "weekly", day_of_week |-> 5, day_of_month |-> None,
       time |-> 9 * 60 * Minute, timezone |-> 60 * Minute, attempt_strategy |-> "offset",
       attempt_offset_days |-> 14, attempt_offset_hours |-> 0, attempt_offset_minutes |-> 0,
       release_days_before |-> 0, release_time |-> None],
      \* Thursday 10:00 UTC every other week, released the day before at 12:00
      [frequency |-> "fortnightly", day_of_week |-> 4, day_of_month |-> None,
       time |-> 10 * 60 * Minute, timezone |-> 0, attempt_strategy |-> "release",
       attempt_offset_days |-> 0, attempt_offset_hours |-> 0, attempt_offset_minutes |-> 0,
       release_days_before |-> 1, release_time |-> 12 * 60 * Minute] }

MakeSlot(cfg, active) ==
    [exists |-> TRUE, is_active |-> active,
     frequency |-> cfg.frequency, day_of_week |-> cfg.day_of_week,
     day_of_month |-> cfg.day_of_month, time |-> cfg.time, timezone |-> cfg.timezone,
     attempt_strategy |-> cfg.attempt_strategy,
     attempt_offset_days |-> cfg.attempt_offset_days,
     attempt_offset_hours |-> cfg.attempt_offset_hours,
     attempt_offset_minutes |-> cfg.attempt_offset_minutes,
     release_days_before |-> cfg.release_days_before, release_time |-> cfg.release_time]

\* the booking_slots table before any slot is created
NoSlot == [MakeSlot(CHOOSE c \in SlotConfigs : TRUE, FALSE) EXCEPT !.exists = FALSE]

----------------------------------------------------------------------------
(* Tasks *)

Status == {"pending", "processing", "success", "failed", "cancelled"}

BookingTask(id, scheduled_date, attempt_at) ==
    [id |-> id, scheduled_date |-> scheduled_date, attempt_at |-> attempt_at,
     status |-> "pending", error_message |-> NoMessage, attempted_at |-> None]

TaskIds(ts) == { t.id : t \in ts }
TaskById(ts, id) == CHOOSE t \in ts : t.id = id
\* ts with the row of u.id replaced by u
PutTask(ts, u) == { IF t.id = u.id THEN u ELSE t : t \in ts }

PendingTasks(ts) == { t \in ts : t.status = "pending" }

----------------------------------------------------------------------------
(* Queue synchronizer *)

\* variant: the pending filter without the scheduled_date >= now condition
existing_future_pending_any_date(ts, nowv) ==
    { t \in ts : t.status = "pending" }

existing_future_pending(ts, nowv) ==
    { t \in ts : t.status = "pending" /\ t.scheduled_date >= nowv }

\* variant: the handled occurrences are not looked up
previously_processed_dates_none(ts, nowv) ==
    { t.scheduled_date : t \in { u \in ts : FALSE } }

\* occurrences of non-pending tasks that are still ahead
previously_processed_dates(ts, nowv) ==
    { t.scheduled_date : t \in { u \in ts : u.status # "pending" /\ u.scheduled_date >= nowv } }

\* variant: the loop without the test of the candidate against existing_dates
RECURSIVE sync_loop_no_skip(_, _, _, _, _, _, _, _)
sync_loop_no_skip(s, nowv, count, nExisting, offset, added, existing_dates, acc) ==
    IF ~(nExisting + added < count) THEN acc
    ELSE LET scheduled_at == calculate_next_occurrence(s, nowv, offset)
         IN  IF scheduled_at <= nowv
             THEN sync_loop_no_skip(s, nowv, count, nExisting, offset + 1, added,
                                    existing_dates, acc)
             ELSE sync_loop_no_skip(s, nowv, count, nExisting, offset + 1, added + 1,
                                    existing_dates \cup {scheduled_at},
                                    Append(acc, scheduled_at))

\* variant: the loop runs while added < count, whatever is already queued
RECURSIVE sync_loop_ignore_existing(_, _, _, _, _, _, _, _)
sync_loop_ignore_existing(s, nowv, count, nExisting, offset, added, existing_dates, acc) ==
    IF ~(added < count) THEN acc
    ELSE LET scheduled_at == calculate_next_occurrence(s, nowv, offset)
         IN  IF scheduled_at <= nowv \/ scheduled_at \in existing_dates
             THEN sync_loop_ignore_existing(s, nowv, count, nExisting, offset + 1, added,
                                            existing_dates, acc)
             ELSE sync_loop_ignore_existing(s, nowv, count, nExisting, offset + 1,
                                            added + 1, existing_dates \cup {scheduled_at},
                                            Append(acc, scheduled_at))

\* the while loop of sync_pending_tasks: the occurrences it inserts, in order
RECURSIVE sync_loop(_, _, _, _, _, _, _, _)
sync_loop(s, nowv, count, nExisting, offset, added, existing_dates, acc) ==
    IF ~(nExisting + added < count) THEN acc
    ELSE LET scheduled_at == calculate_next_occurrence(s, nowv, offset)
         IN  IF scheduled_at <= nowv \/ scheduled_at \in existing_dates
             THEN sync_loop(s, nowv, count, nExisting, offset + 1, added, existing_dates, acc)
             ELSE sync_loop(s, nowv, count, nExisting, offset + 1, added + 1,
                            existing_dates \cup {scheduled_at}, Append(acc, scheduled_at))

\* variant: a resetting call also deletes the failed and cancelled rows
sync_pending_tasks_reset_unfinished(ts, nid, s, nowv, count, reset_existing) ==
    IF ~s.is_active THEN [tasks |-> ts, nextId |-> nid]
    ELSE LET kept == IF reset_existing THEN { t \in ts : t.status \in {"processing", "success"} } ELSE ts
             existing == existing_future_pending(kept, nowv)
             retimed == { IF t \in existing
                          THEN [t EXCEPT !.attempt_at =
                                    calculate_attempt_at(s, t.scheduled_date, nowv)]
                          ELSE t : t \in kept }
             existing_dates == { t.scheduled_date : t \in existing }
                               \cup previously_processed_dates(kept, nowv)
             new == sync_loop(s, nowv, count, Cardinality(existing), 0, 0,
                              existing_dates, << >>)
             created == { BookingTask(nid + i - 1, new[i],
                                      calculate_attempt_at(s, new[i], nowv))
                          : i \in 1..Len(new) }
         IN  [tasks |-> retimed \cup created, nextId |-> nid + Len(new)]

\* sync_pending_tasks: the task table and the id counter it leaves
sync_pending_tasks(ts, nid, s, nowv, count, reset_existing) ==
    IF ~s.is_active THEN [tasks |-> ts, nextId |-> nid]
    ELSE LET kept == IF reset_existing THEN { t \in ts : t.status # "pending" } ELSE ts
             existing == existing_future_pending(kept, nowv)
             retimed == { IF t \in existing
                          THEN [t EXCEPT !.attempt_at =
                                    calculate_attempt_at(s, t.scheduled_date, nowv)]
                          ELSE t : t \in kept }
             existing_dates == { t.scheduled_date : t \in existing }
                               \cup previously_processed_dates(kept, nowv)
             new == sync_loop(s, nowv, count, Cardinality(existing), 0, 0,
                              existing_dates, << >>)
             created == { BookingTask(nid + i - 1, new[i],
                                      calculate_attempt_at(s, new[i], nowv))
                          : i \in 1..Len(new) }
         IN  [tasks |-> retimed \cup created, nextId |-> nid + Len(new)]

\* variant: the deactivation leaves the pending tasks as they are
cancel_pending_tasks_for_slot_skipped(ts) ==
    { t : t \in ts }

\* crud.cancel_pending_tasks_for_slot
cancel_pending_tasks_for_slot(ts) ==
    { IF t.status = "pending"
      THEN [t EXCEPT !.status = "cancelled", !.error_message = "Slot was deactivated"]
      ELSE t : t \in ts }

----------------------------------------------------------------------------
(* Booking executor *)

\* what an execution finds: the slot's provider and owner rows, and what the
\* registry and the handler do for the provider type
ExecEnvs ==
    { [provider |-> TRUE, owner |-> TRUE, handler |-> "success"],
      [provider |-> TRUE, owner |-> TRUE, handler |-> "failure"],
      [provider |-> TRUE, owner |-> TRUE, handler |-> "failure_no_message"],
      [provider |-> TRUE, owner |-> TRUE, handler |-> "unregistered"],
      [provider |-> TRUE, owner |-> TRUE, handler |-> "raises"],
      [provider |-> FALSE, owner |-> TRUE, handler |-> "success"],
      [provider |-> TRUE, owner |-> FALSE, handler |-> "success"] }

\* variant: the success path stamps attempted_at whether or not it was set
execute_booking_task_restamped(t, s, env, nowv) ==
    IF ~s.exists \/ ~env.provider \/ ~env.owner \/ env.handler = "unregistered"
    THEN [raised |-> "BookingExecutionError", message |-> "not executed",
          invoked |-> FALSE, task |-> t]
    ELSE IF env.handler = "raises"
    THEN [raised |-> "Exception", message |-> "", invoked |-> TRUE, task |-> t]
    ELSE IF env.handler \in {"failure", "failure_no_message"}
    THEN [raised |-> "BookingExecutionError", message |-> "Booking provider failed",
          invoked |-> TRUE, task |-> t]
    ELSE [raised |-> "none", message |-> NoMessage, invoked |-> TRUE,
          task |-> [t EXCEPT !.status = "success", !.error_message = NoMessage,
                             !.attempted_at = nowv]]

\* execute_booking_task on the stored row t: the exception it raises ("none",
\* "BookingExecutionError" or "Exception"), str(exc), whether the handler was
\* invoked, and the row it commits
execute_booking_task(t, s, env, nowv) ==
    LET error(msg) == [raised |-> "BookingExecutionError", message |-> msg,
                       invoked |-> FALSE, task |-> t]
    IN  IF ~s.exists THEN error("Booking slot no longer exists")
        ELSE IF ~env.provider THEN error("Provider no longer exists for booking slot")
        ELSE IF ~env.owner THEN error("Slot owner no longer exists")
        ELSE IF env.handler = "unregistered"
             THEN error("No booking provider registered for type")
        ELSE IF env.handler = "raises"
             THEN [raised |-> "Exception", message |-> "", invoked |-> TRUE, task |-> t]
        ELSE IF env.handler = "failure"
             THEN [error("No courts available") EXCEPT !.invoked = TRUE]
        ELSE IF env.handler = "failure_no_message"
             THEN [error("Booking provider failed") EXCEPT !.invoked = TRUE]
        ELSE [raised |-> "none", message |-> NoMessage, invoked |-> TRUE,
              task |-> [t EXCEPT !.status = "success", !.error_message = NoMessage,
                                 !.attempted_at = IF t.attempted_at = None
                                                  THEN nowv ELSE t.attempted_at]]

\* worker._mark_failed
mark_failed(t, message) == [t EXCEPT !.status = "failed", !.error_message = message]

\* room in the id space for the rows a sync inserts
Fits(r) == r.nextId <= MaxId + 1

\* HTTP status codes of the responses; InFlight: the request has not answered yet
InFlight == 0
Codes == {InFlight, 200, 204, 400, 500, 502}

\* no request and no worker pass is under way
Quiet == wpc \in {"idle", "crashed"} /\ manual = NoTask

\* a request arrives
Arrive == requests < MaxRequests /\ requests' = requests + 1

\* run_forever at position pos ("run_once": about to start a pass, "in_pass",
\* "sleep": in time.sleep, "stopped": the process has ended)
WorkerLoop(pos, found, processed) == [pos |-> pos, found |-> found, processed |-> processed]

LoopIdle == wloop = WorkerLoop("run_once", 0, 0)

\* a unit of work of sync_pending_tasks: the attempt instants it sets on rows it
\* read, the rows it adds, and whether the call stands inside the try block
SyncPlan(updates, inserts, protected) == [updates |-> updates, inserts |-> inserts, protected |-> protected]

NoSync == SyncPlan({}, << >>, FALSE)

\* a confirmation code: the identifier the provider gave for the candidate
\* numbered id; no confirmation code
Confirmation(kind, id) == [kind |-> kind, id |-> id]
NoConfirmation == Confirmation("None", 0)

\* no BookingResult
NoResult == [success |-> FALSE, message |-> NoMessage, confirmation_code |-> NoConfirmation]

\* no handler is executing
HandlerIdle ==
    /\ hctx = [provider |-> "none"]
    /\ hpc = "idle"
    /\ hranked = << >>
    /\ hnext = 0
    /\ hcalls = << >>
    /\ hresult = NoResult

----------------------------------------------------------------------------
(* Initial state: empty tables, worker idle *)

Init ==
    /\ now = Now0
    /\ slot = NoSlot
    /\ tasks = {}
    /\ nextId = 1
    /\ wpc = "idle"
    /\ batch = << >>
    /\ wtask = NoTask
    /\ manual = NoTask
    /\ requests = 0
    /\ registry = << >>
    /\ calls = << >>
    /\ HandlerIdle
    /\ LoopIdle
    /\ wsync = NoSync

\* time passes
Tick ==
    /\ \E t \in ClockValues : t > now /\ now' = t
    /\ UNCHANGED <<slot, tasks, nextId, wpc, batch, wtask, manual, requests>>
    /\ UNCHANGED <<regvars, hvars, loopvars, syncvars>>

----------------------------------------------------------------------------
(* Slot requests *)

\* POST /booking-slots
create_booking_slot(cfg, active) ==
    /\ ~slot.exists
    /\ LET s == MakeSlot(cfg, active)
           r == IF s.is_active
                THEN sync_pending_tasks(tasks, nextId, s, now, QueueCount, TRUE)
                ELSE [tasks |-> tasks, nextId |-> nextId]
       IN  /\ Fits(r)
           /\ slot' = s
           /\ tasks' = r.tasks
           /\ nextId' = r.nextId
    /\ UNCHANGED <<now, wpc, batch, wtask, manual>>

\* PUT /booking-slots/{id}
update_booking_slot(cfg, active) ==
    /\ slot.exists
    /\ LET was_active == slot.is_active
           s == MakeSlot(cfg, active)
           r == IF was_active /\ ~s.is_active
                THEN [tasks |-> cancel_pending_tasks_for_slot(tasks), nextId |-> nextId]
                ELSE IF s.is_active
                THEN sync_pending_tasks(tasks, nextId, s, now, QueueCount, FALSE)
                ELSE [tasks |-> tasks, nextId |-> nextId]
       IN  /\ Fits(r)
           /\ slot' = s
           /\ tasks' = r.tasks
           /\ nextId' = r.nextId
    /\ UNCHANGED <<now, wpc, batch, wtask, manual>>

\* POST /booking-slots/{id}/resync?count=
resync_booking_tasks(count) ==
    /\ slot.exists
    /\ LET r == sync_pending_tasks(tasks, nextId, slot, now, count, TRUE)
       IN  /\ Fits(r)
           /\ tasks' = r.tasks
           /\ nextId' = r.nextId
    /\ UNCHANGED <<now, slot, wpc, batch, wtask, manual>>

----------------------------------------------------------------------------
(* Task requests *)

\* request bodies of PATCH /booking-tasks/{id}: the one field that is set
PatchBodies ==
    { [field |-> "status", value |-> st] : st \in {"pending", "cancelled", "failed"} }
    \cup { [field |-> "attempt_at", value |-> None] }

\* crud.update_booking_task: setattr for every field set in the body
crud_update_booking_task(t, body) ==
    IF body.field = "status" THEN [t EXCEPT !.status = body.value]
    ELSE [t EXCEPT !.attempt_at = body.value]

\* PATCH /booking-tasks/{id}
update_booking_task(id, body, code) ==
    /\ id \in TaskIds(tasks)
    /\ LET t == TaskById(tasks, id)
       IN  IF t.status # "pending" /\ body.field = "status" /\ body.value = "pending"
           THEN /\ code = 400
                /\ tasks' = tasks
           ELSE /\ code = 200
                /\ tasks' = PutTask(tasks, crud_update_booking_task(t, body))
    /\ UNCHANGED <<now, slot, nextId, wpc, batch, wtask, manual>>

\* POST /booking-tasks/{id}/cancel
cancel_booking_task(id, code) ==
    /\ id \in TaskIds(tasks)
    /\ LET t == TaskById(tasks, id)
       IN  IF t.status # "pending"
           THEN /\ code = 400
                /\ tasks' = tasks
                /\ nextId' = nextId
           ELSE LET cancelled == PutTask(tasks, [t EXCEPT !.status = "cancelled"])
                    synced == slot.exists /\ slot.is_active
                    r == IF synced
                         THEN sync_pending_tasks(cancelled, nextId, slot, now, QueueCount, FALSE)
                         ELSE [tasks |-> cancelled, nextId |-> nextId]
                IN  /\ code = 200
                    /\ Fits(r)
                    /\ tasks' = r.tasks
                    /\ nextId' = r.nextId
    /\ UNCHANGED <<now, slot, wpc, batch, wtask, manual>>

\* variant: reactivation without the test of the occurrence against now
reactivate_booking_task_any_date(id, code) ==
    /\ id \in TaskIds(tasks)
    /\ LET t == TaskById(tasks, id)
       IN  IF t.status # "cancelled"
           THEN /\ code = 400
                /\ tasks' = tasks
           ELSE /\ code = 200
                /\ tasks' = PutTask(tasks, [t EXCEPT !.status = "pending",
                                                     !.error_message = NoMessage])
    /\ UNCHANGED <<now, slot, nextId, wpc, batch, wtask, manual>>

\* POST /booking-tasks/{id}/reactivate
reactivate_booking_task(id, code) ==
    /\ id \in TaskIds(tasks)
    /\ LET t == TaskById(tasks, id)
       IN  IF t.status # "cancelled" \/ t.scheduled_date < now
           THEN /\ code = 400
                /\ tasks' = tasks
           ELSE /\ code = 200
                /\ tasks' = PutTask(tasks, [t EXCEPT !.status = "pending",
                                                     !.error_message = NoMessage])
    /\ UNCHANGED <<now, slot, nextId, wpc, batch, wtask, manual>>

\* DELETE /booking-tasks/{id}
delete_booking_task(id, code) ==
    /\ id \in TaskIds(tasks)
    /\ LET t == TaskById(tasks, id)
       IN  IF t.status \notin {"cancelled", "failed", "success"}
           THEN /\ code = 400
                /\ tasks' = tasks
           ELSE /\ code = 204
                /\ tasks' = tasks \ {t}
    /\ UNCHANGED <<now, slot, nextId, wpc, batch, wtask, manual>>

----------------------------------------------------------------------------
(* Manual run-now: POST /booking-tasks/{id}/execute *)

\* variant: the executor is called without the claim having been written
execute_task_now_claim_unwritten(id, code) ==
    /\ manual = NoTask
    /\ id \in TaskIds(tasks)
    /\ LET t == TaskById(tasks, id)
       IN  IF t.status # "pending"
           THEN /\ code = 400
                /\ tasks' = tasks
                /\ manual' = NoTask
           ELSE /\ code = InFlight
                /\ tasks' = tasks
                /\ manual' = id
    /\ UNCHANGED <<now, slot, nextId, wpc, batch, wtask>>

\* the status check and the claim, committed before the executor is called
execute_task_now_claim(id, code) ==
    /\ manual = NoTask
    /\ id \in TaskIds(tasks)
    /\ LET t == TaskById(tasks, id)
       IN  IF t.status # "pending"
           THEN /\ code = 400
                /\ tasks' = tasks
                /\ manual' = NoTask
           ELSE /\ code = InFlight
                /\ tasks' = PutTask(tasks, [t EXCEPT !.status = "processing",
                                                     !.attempted_at = now])
                /\ manual' = id
    /\ UNCHANGED <<now, slot, nextId, wpc, batch, wtask>>

\* the executor call and what the handler does with its outcome
execute_task_now_run(env, code) ==
    /\ manual # NoTask
    /\ manual' = NoTask
    /\ IF manual \notin TaskIds(tasks)
       THEN \* the row was deleted meanwhile: the executor's query raises
            /\ code = 500
            /\ tasks' = tasks
            /\ nextId' = nextId
       ELSE LET t == TaskById(tasks, manual)
                x == execute_booking_task(t, slot, env, now)
                synced == slot.exists /\ slot.is_active
                done == IF x.raised = "none" THEN PutTask(tasks, x.task)
                        ELSE PutTask(tasks, mark_failed(t, x.message))
                r == IF synced
                     THEN sync_pending_tasks(done, nextId, slot, now, QueueCount, FALSE)
                     ELSE [tasks |-> done, nextId |-> nextId]
            IN  IF x.raised = "Exception"
                THEN \* not caught by the route
                     /\ code = 500
                     /\ tasks' = tasks
                     /\ nextId' = nextId
                ELSE /\ code = IF x.raised = "none" THEN 200 ELSE 502
                     /\ Fits(r)
                     /\ tasks' = r.tasks
                     /\ nextId' = r.nextId
    /\ UNCHANGED <<now, slot, wpc, batch, wtask, requests>>

----------------------------------------------------------------------------
(* Worker *)

\* variant: the due filter without the status condition
Due_any_status(t, nowv) == t.attempt_at = None \/ t.attempt_at <= nowv

\* the filter of _process_due_tasks
Due(t, nowv) == t.status = "pending" /\ (t.attempt_at = None \/ t.attempt_at <= nowv)

\* order_by(attempt_at.asc()): unset attempt instants sort first
SortKey(t) == t.attempt_at

\* the results the query can return: the first BatchSize due rows by attempt
\* instant, rows with equal attempt instants in any order
Batches(ts, nowv) ==
    LET due == { t \in ts : Due(t, nowv) }
        n == IF Cardinality(due) < BatchSize THEN Cardinality(due) ELSE BatchSize
    IN  { b \in [1..n -> TaskIds(due)] :
            /\ \A i, j \in 1..n : i < j =>
                  /\ b[i] # b[j]
                  /\ SortKey(TaskById(ts, b[i])) <= SortKey(TaskById(ts, b[j]))
            /\ \A t \in due : (\A i \in 1..n : b[i] # t.id) =>
                  \A i \in 1..n : SortKey(TaskById(ts, b[i])) <= SortKey(t) }

\* one pass starts: _process_due_tasks runs its query
process_due_tasks ==
    /\ wpc = "idle"
    /\ \E b \in Batches(tasks, now) :
          /\ batch' = b
          /\ wpc' = IF b = << >> THEN "idle" ELSE "batch"
    /\ UNCHANGED <<now, slot, tasks, nextId, wtask, manual, requests>>

AfterTask(rest) == IF rest = << >> THEN "idle" ELSE "batch"

\* _process_task up to the commit of the claim
process_task_claim ==
    /\ wpc = "batch"
    /\ LET id == Head(batch)
           rest == Tail(batch)
       IN  /\ batch' = rest
           /\ IF id \notin TaskIds(tasks)
              THEN \* the row was deleted meanwhile: the session raises and the
                   \* worker process ends
                   /\ wpc' = "crashed"
                   /\ wtask' = NoTask
                   /\ tasks' = tasks
              ELSE LET t0 == TaskById(tasks, id)
                       t == IF t0.attempt_at = None
                            THEN [t0 EXCEPT !.attempt_at = t0.scheduled_date] ELSE t0
                   IN  IF ~slot.exists
                       THEN /\ tasks' = PutTask(tasks,
                                   [t0 EXCEPT !.status = "failed",
                                     !.error_message = "Associated booking slot missing"])
                            /\ wpc' = AfterTask(rest)
                            /\ wtask' = NoTask
                       ELSE IF ~slot.is_active
                       THEN /\ tasks' = PutTask(tasks,
                                   [t EXCEPT !.status = "cancelled",
                                     !.error_message = "Slot deactivated before execution"])
                            /\ wpc' = AfterTask(rest)
                            /\ wtask' = NoTask
                       ELSE /\ tasks' = PutTask(tasks,
                                   [t EXCEPT !.status = "processing", !.attempted_at = now])
                            /\ wpc' = "claimed"
                            /\ wtask' = id
    /\ UNCHANGED <<now, slot, nextId, manual, requests>>

\* _process_task from the executor call on
process_task_run(env) ==
    /\ wpc = "claimed"
    /\ wtask' = NoTask
    /\ IF wtask \notin TaskIds(tasks)
       THEN /\ wpc' = "crashed"
            /\ tasks' = tasks
            /\ nextId' = nextId
            /\ batch' = batch
       ELSE LET t == TaskById(tasks, wtask)
                x == execute_booking_task(t, slot, env, now)
                \* the success path calls the synchronizer unconditionally
                synced == x.raised = "none" \/ slot.is_active
                done == IF x.raised = "none" THEN PutTask(tasks, x.task)
                        ELSE PutTask(tasks, mark_failed(t, x.message))
                r == IF synced
                     THEN sync_pending_tasks(done, nextId, slot, now, QueueCount, FALSE)
                     ELSE [tasks |-> done, nextId |-> nextId]
            IN  /\ Fits(r)
                /\ tasks' = r.tasks
                /\ nextId' = r.nextId
                /\ batch' = batch
                /\ wpc' = AfterTask(batch)
    /\ UNCHANGED <<now, slot, manual, requests>>

----------------------------------------------------------------------------
(* Specifications *)

CreateSlot ==
    /\ \E cfg \in SlotConfigs, active \in BOOLEAN : create_booking_slot(cfg, active)
    /\ UNCHANGED <<regvars, hvars, loopvars, syncvars>>
UpdateSlot ==
    /\ \E cfg \in SlotConfigs, active \in BOOLEAN : update_booking_slot(cfg, active)
    /\ UNCHANGED <<regvars, hvars, loopvars, syncvars>>
Resync ==
    /\ \E count \in 1..(QueueCount + 1) : resync_booking_tasks(count)
    /\ UNCHANGED <<regvars, hvars, loopvars, syncvars>>
Patch ==
    /\ \E id \in TaskIds(tasks), body \in PatchBodies, code \in Codes :
          update_booking_task(id, body, code)
    /\ UNCHANGED <<regvars, hvars, loopvars, syncvars>>
Cancel ==
    /\ \E id \in TaskIds(tasks), code \in Codes : cancel_booking_task(id, code)
    /\ UNCHANGED <<regvars, hvars, loopvars, syncvars>>
Reactivate ==
    /\ \E id \in TaskIds(tasks), code \in Codes : reactivate_booking_task(id, code)
    /\ UNCHANGED <<regvars, hvars, loopvars, syncvars>>
Delete ==
    /\ \E id \in TaskIds(tasks), code \in Codes : delete_booking_task(id, code)
    /\ UNCHANGED <<regvars, hvars, loopvars, syncvars>>
RunNowClaim ==
    /\ \E id \in TaskIds(tasks), code \in Codes : execute_task_now_claim(id, code)
    /\ UNCHANGED <<regvars, hvars, loopvars, syncvars>>
RunNowRun ==
    /\ \E env \in ExecEnvs, code \in Codes : execute_task_now_run(env, code)
    /\ UNCHANGED <<regvars, hvars, loopvars, syncvars>>
WorkerPoll == process_due_tasks /\ UNCHANGED <<regvars, hvars, loopvars, syncvars>>
WorkerClaim == process_task_claim /\ UNCHANGED <<regvars, hvars, loopvars, syncvars>>
WorkerRun ==
    /\ \E env \in ExecEnvs : process_task_run(env)
    /\ UNCHANGED <<regvars, hvars, loopvars, syncvars>>

\* requests and worker passes are served one after the other (the sequential
\* baseline); time passes at any point
Next ==
    \/ Tick
    \/ Quiet /\ Arrive /\ CreateSlot
    \/ Quiet /\ Arrive /\ UpdateSlot
    \/ Quiet /\ Arrive /\ Resync
    \/ Quiet /\ Arrive /\ Patch
    \/ Quiet /\ Arrive /\ Cancel
    \/ Quiet /\ Arrive /\ Reactivate
    \/ Quiet /\ Arrive /\ Delete
    \/ Quiet /\ Arrive /\ RunNowClaim
    \/ RunNowRun
    \/ Quiet /\ WorkerPoll
    \/ WorkerClaim
    \/ WorkerRun

Spec == Init /\ [][Next]_vars

\* the operations of slot create/update/resync, sync, worker passes, manual
\* run-now, cancel, reactivate and deletion of terminal tasks, without PATCH
NextListed ==
    \/ Tick
    \/ Quiet /\ Arrive /\ CreateSlot
    \/ Quiet /\ Arrive /\ UpdateSlot
    \/ Quiet /\ Arrive /\ Resync
    \/ Quiet /\ Arrive /\ Cancel
    \/ Quiet /\ Arrive /\ Reactivate
    \/ Quiet /\ Arrive /\ Delete
    \/ Quiet /\ Arrive /\ RunNowClaim
    \/ RunNowRun
    \/ Quiet /\ WorkerPoll
    \/ WorkerClaim
    \/ WorkerRun

SpecListed == Init /\ [][NextListed]_vars

TypeOK ==
    /\ now \in ClockValues
    /\ nextId \in 1..(MaxId + 1)
    /\ wpc \in {"idle", "batch", "claimed", "sync", "commit", "crashed"}
    /\ \A t \in tasks : t.status \in Status /\ t.id \in 1..MaxId

----------------------------------------------------------------------------
(* The recurrence and attempt calculators on their own: generate_upcoming_tasks
   for a range of slots and reference instants *)

\* recurrences: every caller-facing weekday, and days of the month that need
\* clamping in short months
CalcRecurrences ==
    { [frequency |-> f, day_of_week |-> d, day_of_month |-> None]
        : f \in {"weekly", "fortnightly"}, d \in 0..6 }
    \cup { [frequency |-> "monthly", day_of_week |-> None, day_of_month |-> m]
             : m \in {None, 1, 30, 31} }

\* attempt settings: no offset, 14 days, 1 h 30 min, release the day before at
\* 07:15, release on the day with no release time
CalcTimings ==
    { [attempt_strategy |-> "offset", attempt_offset_days |-> 0, attempt_offset_hours |-> 0,
       attempt_offset_minutes |-> 0, release_days_before |-> 0, release_time |-> None],
      [attempt_strategy |-> "offset", attempt_offset_days |-> 14, attempt_offset_hours |-> 0,
       attempt_offset_minutes |-> 0, release_days_before |-> 0, release_time |-> None],
      [attempt_strategy |-> "offset", attempt_offset_days |-> 0, attempt_offset_hours |-> 1,
       attempt_offset_minutes |-> 30, release_days_before |-> 0, release_time |-> None],
      [attempt_strategy |-> "release", attempt_offset_days |-> 0, attempt_offset_hours |-> 0,
       attempt_offset_minutes |-> 0, release_days_before |-> 1,
       release_time |-> (7 * 60 + 15) * Minute],
      [attempt_strategy |-> "release", attempt_offset_days |-> 0, attempt_offset_hours |-> 0,
       attempt_offset_minutes |-> 0, release_days_before |-> 0, release_time |-> None] }

\* UTC-5, UTC and UTC+1
CalcZones == { 0 - 5 * 60 * Minute, 0, 60 * Minute }

\* slots at 10:00 local
CalcConfigs ==
    { [frequency |-> r.frequency, day_of_week |-> r.day_of_week,
       day_of_month |-> r.day_of_month, time |-> 10 * 60 * Minute, timezone |-> z,
       attempt_strategy |-> g.attempt_strategy,
       attempt_offset_days |-> g.attempt_offset_days,
       attempt_offset_hours |-> g.attempt_offset_hours,
       attempt_offset_minutes |-> g.attempt_offset_minutes,
       release_days_before |-> g.release_days_before, release_time |-> g.release_time]
      : r \in CalcRecurrences, z \in CalcZones, g \in CalcTimings }

\* reference instants: Fri 5 Jan, Sun 7 Jan, 31 Jan, 29 Feb and 30 Apr 2024 at
\* 08:00:00, 09:59:30, 10:00:00 and 23:00:30 UTC
CalcRefs ==
    { d * Day + m : d \in {4, 6, 30, 59, 120},
                    m \in {8 * 60 * Minute, 10 * 60 * Minute - 1, 10 * 60 * Minute,
                           23 * 60 * Minute + 1} }

InitCalc ==
    /\ now \in CalcRefs
    /\ slot \in { MakeSlot(cfg, TRUE) : cfg \in CalcConfigs }
    /\ tasks = {}
    /\ nextId = 1
    /\ wpc = "idle"
    /\ batch = << >>
    /\ wtask = NoTask
    /\ manual = NoTask
    /\ requests = 0
    /\ registry = << >>
    /\ calls = << >>
    /\ HandlerIdle
    /\ LoopIdle
    /\ wsync = NoSync

\* one iteration of generate_upcoming_tasks(slot, count = MaxOffsets), for
\* offset = nextId - 1; the yielded task is numbered offset + 1
generate_upcoming_tasks ==
    /\ nextId <= MaxOffsets
    /\ LET offset == nextId - 1
           scheduled_at == calculate_next_occurrence(slot, now, offset)
       IN  tasks' = IF scheduled_at <= now THEN tasks
                    ELSE tasks \cup { BookingTask(nextId, scheduled_at,
                                          calculate_attempt_at(slot, scheduled_at, now)) }
    /\ nextId' = nextId + 1
    /\ UNCHANGED <<now, slot, wpc, batch, wtask, manual, requests>>
    /\ UNCHANGED <<regvars, hvars, loopvars, syncvars>>

NextCalc == generate_upcoming_tasks

SpecCalc == InitCalc /\ [][NextCalc]_vars

----------------------------------------------------------------------------
(* The provider registry of booking_engine: register, unregister and lookup
   calls on provider types that differ in letter case *)

\* provider types are character sequences; the empty one is the empty string
ProviderTypes == { << >>, <<"a">>, <<"A">>, <<"a", "b">>, <<"A", "B">> }

\* the handlers a caller registers
Handlers == {"handler_1", "handler_2"}

\* no exception, no return value
NoError == ""
NoHandler == "None"

\* str.lower() on one character
lower_char(c) == CASE c = "A" -> "a" [] c = "B" -> "b" [] OTHER -> c

\* variant: the provider type is used as the key unchanged
lower_unchanged(provider_type) == provider_type

\* provider_type.lower()
lower(provider_type) ==
    [i \in 1..Len(provider_type) |-> lower_char(provider_type[i])]

\* _provider_registry[key] = handler
registry_set(reg, key, handler) ==
    [k \in (DOMAIN reg) \cup {key} |-> IF k = key THEN handler ELSE reg[k]]

\* _provider_registry.pop(key, None)
registry_pop(reg, key) == [k \in (DOMAIN reg) \ {key} |-> reg[k]]

\* _lookup_handler: the handler it returns or the error it raises
lookup_handler(reg, provider_type) ==
    LET provider_key == lower(provider_type)
    IN  IF provider_key \in DOMAIN reg
        THEN [raised |-> NoError, returned |-> reg[provider_key]]
        ELSE [raised |-> "BookingProviderNotRegisteredError", returned |-> NoHandler]

\* the record of one call on the registry
Call(op, provider_type, handler, raised, returned) ==
    [op |-> op, provider_type |-> provider_type, handler |-> handler,
     raised |-> raised, returned |-> returned]

register_provider_handler(provider_type, handler) ==
    /\ Len(calls) < MaxCalls
    /\ IF provider_type = << >>
       THEN /\ registry' = registry
            /\ calls' = Append(calls, Call("register", provider_type, handler,
                                           "ValueError", NoHandler))
       ELSE /\ registry' = registry_set(registry, lower(provider_type), handler)
            /\ calls' = Append(calls, Call("register", provider_type, handler,
                                           NoError, NoHandler))
    /\ UNCHANGED <<now, slot, tasks, nextId, wpc, batch, wtask, manual, requests>>
    /\ UNCHANGED <<hvars, loopvars, syncvars>>

unregister_provider_handler(provider_type) ==
    /\ Len(calls) < MaxCalls
    /\ registry' = registry_pop(registry, lower(provider_type))
    /\ calls' = Append(calls, Call("unregister", provider_type, NoHandler,
                                   NoError, NoHandler))
    /\ UNCHANGED <<now, slot, tasks, nextId, wpc, batch, wtask, manual, requests>>
    /\ UNCHANGED <<hvars, loopvars, syncvars>>

\* a call of _lookup_handler, as run_booking makes it
run_booking_lookup(provider_type) ==
    /\ Len(calls) < MaxCalls
    /\ LET r == lookup_handler(registry, provider_type)
       IN  calls' = Append(calls, Call("lookup", provider_type, NoHandler,
                                      r.raised, r.returned))
    /\ UNCHANGED <<now, slot, tasks, nextId, wpc, batch, wtask, manual, requests, registry>>
    /\ UNCHANGED <<hvars, loopvars, syncvars>>

Register == \E provider_type \in ProviderTypes, handler \in Handlers :
                register_provider_handler(provider_type, handler)
Unregister == \E provider_type \in ProviderTypes : unregister_provider_handler(provider_type)
Lookup == \E provider_type \in ProviderTypes : run_booking_lookup(provider_type)

NextRegistry ==
    \/ Register
    \/ Unregister
    \/ Lookup

SpecRegistry == Init /\ [][NextRegistry]_vars

----------------------------------------------------------------------------
(* execute_booking_task on its own: one call on a stored row, for a range of
   rows and of provider, owner and handler outcomes *)

\* the rows the executor is called on: claimed or not, stamped or not, with or
\* without an earlier error message
ExecRows ==
    { [BookingTask(1, Now0 + Week, Now0) EXCEPT !.status = st, !.error_message = m,
                                                 !.attempted_at = a]
        : st \in {"pending", "processing", "failed"},
          m \in {NoMessage, "No courts available"},
          a \in {None, Now0 - Minute} }

InitExec ==
    /\ now \in ClockValues
    /\ slot \in { MakeSlot(cfg, active) : cfg \in SlotConfigs, active \in BOOLEAN }
    /\ tasks \in { {t} : t \in ExecRows }
    /\ nextId = 2
    /\ wpc = "idle"
    /\ batch = << >>
    /\ wtask = NoTask
    /\ manual = 1
    /\ requests = 0
    /\ registry = << >>
    /\ calls = << >>
    /\ HandlerIdle
    /\ LoopIdle
    /\ wsync = NoSync

\* execute_booking_task(db, task) on the row numbered manual: the commit of
\* the success path; a raise leaves the session without a write
execute_booking_task_call(env) ==
    /\ manual \in TaskIds(tasks)
    /\ LET t == TaskById(tasks, manual)
           x == execute_booking_task(t, slot, env, now)
       IN  tasks' = IF x.raised = "none" THEN PutTask(tasks, x.task) ELSE tasks
    /\ manual' = NoTask
    /\ UNCHANGED <<now, slot, nextId, wpc, batch, wtask, requests, registry, calls>>
    /\ UNCHANGED <<hvars, loopvars, syncvars>>

NextExec == \E env \in ExecEnvs : execute_booking_task_call(env)

SpecExec == InitExec /\ [][NextExec]_vars

----------------------------------------------------------------------------
(* Slot ranking: integrations/clubspark/utils.py and integrations/better/utils.py.
   Times are minutes of the day; court names are character sequences *)

\* list.index(value): the position of the first match, from 0
IndexOf(value, candidates) ==
    (CHOOSE i \in 1..Len(candidates) :
        /\ candidates[i] = value
        /\ \A j \in 1..(i - 1) : candidates[j] # value) - 1

\* _index_rank of both providers
index_rank(value, candidates) ==
    IF candidates = << >> THEN 0
    ELSE IF \E i \in 1..Len(candidates) : candidates[i] = value
         THEN IndexOf(value, candidates)
         ELSE Len(candidates)

\* needle in hay, on character sequences
Contains(hay, needle) ==
    \E k \in 0..(Len(hay) - Len(needle)) : SubSeq(hay, k + 1, k + Len(needle)) = needle

\* float("inf")
Inf == 1000000

\* better utils._match_rank
match_rank(value, candidates) ==
    IF candidates = << >> THEN 0
    ELSE IF \E i \in 1..Len(candidates) : Contains(lower(value), lower(candidates[i]))
         THEN (CHOOSE i \in 1..Len(candidates) :
                  /\ Contains(lower(value), lower(candidates[i]))
                  /\ \A j \in 1..(i - 1) : ~Contains(lower(value), lower(candidates[j]))) - 1
         ELSE Inf

\* combined_rank of clubspark rank_slots
clubspark_rank(time, name, preferred_times, preferred_courts) ==
    100 * index_rank(time, preferred_times) + index_rank(name, preferred_courts)

\* better rank_slot
better_rank(time, name, preferred_times, preferred_courts) ==
    index_rank(time, preferred_times) * 100 + match_rank(name, preferred_courts)

\* variant: a candidate goes in front of the candidates of equal rank
insert_before_equal(sorted, c) ==
    LET k == Cardinality({ i \in 1..Len(sorted) : sorted[i].rank < c.rank })
    IN  SubSeq(sorted, 1, k) \o <<c>> \o SubSeq(sorted, k + 1, Len(sorted))

\* a candidate put into a list sorted by rank, behind the candidates of equal rank
insert_by_rank(sorted, c) ==
    LET k == Cardinality({ i \in 1..Len(sorted) : sorted[i].rank <= c.rank })
    IN  SubSeq(sorted, 1, k) \o <<c>> \o SubSeq(sorted, k + 1, Len(sorted))

\* list.sort(key = rank): stable
RECURSIVE sort_by_rank(_)
sort_by_rank(cands) ==
    IF cands = << >> THEN << >>
    ELSE insert_by_rank(sort_by_rank(SubSeq(cands, 1, Len(cands) - 1)), cands[Len(cands)])

----------------------------------------------------------------------------
(* Provider handlers: services/providers/clubspark.py and better.py, one
   execution of a handler against an external service whose answers are fixed
   by the context *)

\* windows the provider reports for the target date, courts per window
NumWindows == 3
NumCourts == 2

CLUBSPARK_MAX_SLOT_ATTEMPTS == 3
BETTER_MAX_SLOT_ATTEMPTS == 5

\* start time of the w-th window, in minutes of the day
WindowTime(w) == (8 + w) * 60

\* names of the courts of a window, in the provider's order
CourtNames == << <<"A">>, <<"a", "B">>, <<"B", "B">> >>
CourtName(r) == CourtNames[((r - 1) % Len(CourtNames)) + 1]

\* cart.total of a paid slot
Price == 10

\* options.targetTimes, already parsed; the last one matches no window
TargetTimes ==
    { << >>, <<WindowTime(2)>>, <<WindowTime(3), WindowTime(1), WindowTime(2)>>,
      <<7 * 60>> }

\* options.targetCourts
TargetCourts ==
    { << >>, << <<"b">> >>, << <<"a", "B">>, <<"A">> >>, << <<"B">>, <<"a">>, <<"b">> >> }

\* answers of an external call: a response, an HTTP error status (raised as
\* the client's API error), a transport error such as a timeout (raised by
\* httpx, not wrapped by the clients)
CallOutcomes == {"ok", "http_error", "transport_error"}

\* what makes a Clubspark candidate fail: create_payment or request_session
\* answering with an error, a payment without ID, a negative session result
ClubsparkCandidate(payment, session) == [payment |-> payment, session |-> session]

ClubsparkFailures ==
    { ClubsparkCandidate("http_error", "ok"), ClubsparkCandidate("transport_error", "ok"),
      ClubsparkCandidate("no_id", "ok"), ClubsparkCandidate("ok", "http_error"),
      ClubsparkCandidate("ok", "transport_error"), ClubsparkCandidate("ok", "negative") }

\* a Better candidate: the answers of the cart, credit, checkout and completion
\* calls for it
BetterCandidate(cart, total, credit, apply, prepare, validate, authorise, status, complete) ==
    [cart |-> cart, total |-> total, credit |-> credit, apply |-> apply,
     prepare |-> prepare, validate |-> validate, authorise |-> authorise,
     status |-> status, complete |-> complete]

BetterFailures ==
    { BetterCandidate("http_error", Price, 0, "ok", "ok", "ok", "ok", "authorised", "ok"),
      BetterCandidate("transport_error", Price, 0, "ok", "ok", "ok", "ok", "authorised", "ok"),
      BetterCandidate("ok", Price, 0, "ok", "http_error", "ok", "ok", "authorised", "ok"),
      BetterCandidate("ok", Price, 0, "ok", "ok", "http_error", "ok", "authorised", "ok"),
      BetterCandidate("ok", Price, 0, "ok", "ok", "ok", "http_error", "authorised", "ok"),
      BetterCandidate("ok", Price, 0, "ok", "ok", "ok", "transport_error", "authorised", "ok"),
      BetterCandidate("ok", Price, 0, "ok", "ok", "ok", "ok", "declined", "ok"),
      BetterCandidate("ok", Price, Price - 1, "ok", "ok", "ok", "ok", "rejected", "ok"),
      BetterCandidate("ok", Price, 0, "ok", "ok", "ok", "ok", "authorised", "http_error"),
      BetterCandidate("ok", 0, 0, "ok", "ok", "ok", "ok", "authorised", "transport_error") }

\* a Better candidate whose card is declined
BetterDeclined == BetterCandidate("ok", Price, 0, "ok", "ok", "ok", "ok", "declined", "ok")

\* bookable Better candidates: free, paid by card, covered by credit, credit
\* that cannot be applied, credit covering a part
BetterBookable ==
    << BetterCandidate("ok", Price, 0, "ok", "ok", "ok", "ok", "authorised", "ok"),
       BetterCandidate("ok", 0, 0, "ok", "ok", "ok", "ok", "authorised", "ok"),
       BetterCandidate("ok", Price, Price, "ok", "ok", "ok", "ok", "authorised", "ok"),
       BetterCandidate("ok", Price, Price, "http_error", "ok", "ok", "ok", "authorised", "ok"),
       BetterCandidate("ok", Price, Price - 1, "ok", "ok", "ok", "ok", "authorised", "ok") >>

\* bookable Clubspark candidates: the session answers with or without a
\* transaction id
ClubsparkBookable ==
    << ClubsparkCandidate("ok", "ok"), ClubsparkCandidate("ok", "no_transaction") >>

\* the answers for the candidate numbered id: the candidates before the one
\* numbered ctx.good fail as ctx.fail says, the others can be booked
CandidateOutcome(ctx, id) ==
    IF ctx.good = 0 \/ id < ctx.good THEN ctx.fail
    ELSE IF ctx.provider = "clubspark"
         THEN ClubsparkBookable[(id % Len(ClubsparkBookable)) + 1]
         ELSE BetterBookable[(id % Len(BetterBookable)) + 1]

\* the context of one execution: provider, validity of the configuration,
\* answers of the lookups, preferences, and the answers per candidate
HandlerContext(provider, config, lookup, settings, stripe, defect, useCredits, targetTimes, targetCourts, good, fail) ==
    [provider |-> provider, config |-> config, lookup |-> lookup, settings |-> settings,
     stripe |-> stripe, defect |-> defect, useCredits |-> useCredits,
     targetTimes |-> targetTimes, targetCourts |-> targetCourts,
     fallback_time |-> WindowTime(1), good |-> good, fail |-> fail]

\* executions with a valid configuration and answering lookups
NominalContexts ==
    { HandlerContext("clubspark", "ok", "ok", "ok", "ok", "none", FALSE, tt, tc, g, f)
        : tt \in TargetTimes, tc \in TargetCourts,
          g \in 0..(NumWindows * NumCourts), f \in ClubsparkFailures }
    \cup
    { HandlerContext("better", "ok", "ok", "ok", "ok", d, u, tt, tc, g, f)
        : d \in {"none"}, u \in BOOLEAN, tt \in TargetTimes, tc \in TargetCourts,
          g \in 0..(NumWindows * NumCourts), f \in BetterFailures }

\* executions in which one thing is wrong before the first attempt: the
\* configuration, a lookup, or one window of the provider
FaultyContexts ==
    { HandlerContext("clubspark", c, "ok", "ok", "ok", "none", FALSE, << >>, << >>, 1,
                     ClubsparkCandidate("no_id", "ok"))
        : c \in {"bad_credentials", "no_slug", "bad_time", "bad_expiry", "bad_expiry_number"} }
    \cup
    { HandlerContext("clubspark", "ok", l, "ok", "ok", "none", FALSE, << >>, << >>, 1,
                     ClubsparkCandidate("no_id", "ok"))
        : l \in {"http_error", "transport_error", "empty", "no_resources"} }
    \cup
    { HandlerContext("clubspark", "ok", "ok", x, y, "none", FALSE, << >>, << >>, 1,
                     ClubsparkCandidate("no_id", "ok"))
        : x \in CallOutcomes, y \in CallOutcomes }
    \cup
    { HandlerContext("clubspark", "bad_expiry", l, "ok", "ok", "none", FALSE, << >>, << >>, 1,
                     ClubsparkCandidate("no_id", "ok"))
        : l \in {"http_error", "empty"} }
    \cup
    { HandlerContext("better", c, "ok", "ok", "ok", "none", TRUE, << >>, << >>, 1,
                     BetterBookable[1])
        : c \in {"bad_credentials", "bad_options"} }
    \cup
    { HandlerContext("better", "ok", l, "ok", "ok", "none", TRUE, << >>, << >>, 1,
                     BetterBookable[1])
        : l \in {"http_error", "transport_error", "empty"} }
    \cup
    { HandlerContext("better", "ok", "ok", "ok", "ok", d, TRUE, tt, << >>, g,
                     BetterDeclined)
        : d \in {"full", "slots_http_error", "slots_transport_error", "not_bookable",
                 "none_bookable"},
          tt \in TargetTimes, g \in {0, 1} }

HandlerContexts == NominalContexts \cup FaultyContexts

\* a BookingResult
BookingResult(success, message, confirmation_code) ==
    [success |-> success, message |-> message, confirmation_code |-> confirmation_code]

\* one external call, for the candidate numbered cand (0: for none)
ExternalCall(call, cand) == [call |-> call, cand |-> cand]

\* what a part of a handler leaves: its position, the ranked candidates, the
\* calls it made and the result it returned
HandlerState(pc, ranked, made, result) ==
    [hpc |-> pc, hranked |-> ranked, hcalls |-> made, hresult |-> result]

Returned(made, success, message, confirmation_code) ==
    HandlerState("returned", << >>, made, BookingResult(success, message, confirmation_code))

\* an exception leaves the handler
Escaped(made, exception) ==
    HandlerState("escaped", << >>, made, BookingResult(FALSE, exception, NoConfirmation))

\* _preferred_times of both handlers
preferred_times(ctx) ==
    IF ctx.targetTimes # << >> THEN ctx.targetTimes ELSE <<ctx.fallback_time>>

\* the r-th resource of the w-th window, not ranked yet
Candidate(ctx, w, r) ==
    [id |-> (w - 1) * NumCourts + r, time |-> WindowTime(w), name |-> CourtName(r),
     outcome |-> CandidateOutcome(ctx, (w - 1) * NumCourts + r), rank |-> 0]

\* the resources of all windows in the provider's order
AllCandidates(ctx) ==
    [p \in 1..(NumWindows * NumCourts) |->
        Candidate(ctx, ((p - 1) \div NumCourts) + 1, ((p - 1) % NumCourts) + 1)]

\* clubspark _preferred_courts: an entry that does not start with "court" gets
\* the prefix "Court "
preferred_courts(targetCourts) ==
    [i \in 1..Len(targetCourts) |->
        IF targetCourts[i] # << >> /\ targetCourts[i][1] \in {"Court ", "court "}
        THEN targetCourts[i]
        ELSE <<"Court ">> \o targetCourts[i]]

\* resource.Name of a Clubspark resource
ResourceName(c) == <<"Court ">> \o c.name

\* clubspark rank_slots on availability.Times
rank_slots(ctx) ==
    LET times == preferred_times(ctx)
        courts == preferred_courts(ctx.targetCourts)
        all == IF ctx.lookup = "no_resources" THEN << >> ELSE AllCandidates(ctx)
    IN  sort_by_rank([p \in 1..Len(all) |->
            [all[p] EXCEPT !.rank = clubspark_rank(all[p].time, ResourceName(all[p]),
                                                   times, courts)]])

\* _book_clubspark up to the loop over the ranked slots
book_clubspark_begin(ctx) ==
    LET user == <<ExternalCall("get_current_user", 0)>>
        avail == Append(user, ExternalCall("get_availability_times", 0))
        setts == Append(avail, ExternalCall("get_app_settings", 0))
        stripe == Append(setts, ExternalCall("create_payment_method", 0))
        ranked_slots == rank_slots(ctx)
    IN  IF ctx.config = "bad_credentials"
        THEN Returned(<< >>, FALSE, "Missing or invalid Clubspark credentials", NoConfirmation)
        ELSE IF ctx.config = "no_slug"
        THEN Returned(<< >>, FALSE, "Clubspark booking slots must specify a court slug",
                      NoConfirmation)
        ELSE IF ctx.config = "bad_time"
        THEN Returned(<< >>, FALSE, "not enough values to unpack (expected 2, got 1)",
                      NoConfirmation)
        ELSE IF ctx.lookup = "http_error"
        THEN Returned(avail, FALSE, "ClubsparkAPIError", NoConfirmation)
        ELSE IF ctx.lookup = "transport_error" THEN Escaped(avail, "httpx.TransportError")
        ELSE IF ctx.lookup = "empty"
        THEN Returned(avail, FALSE, "No availability returned by Clubspark", NoConfirmation)
        ELSE IF ranked_slots = << >>
        THEN Returned(avail, FALSE, "No slots match the preferred times/courts", NoConfirmation)
        ELSE IF ctx.settings = "http_error"
        THEN Returned(setts, FALSE, "ClubsparkAPIError", NoConfirmation)
        ELSE IF ctx.settings = "transport_error" THEN Escaped(setts, "httpx.TransportError")
        ELSE IF ctx.config \in {"bad_expiry", "bad_expiry_number"}
        THEN Escaped(setts, "ValueError")
        ELSE IF ctx.stripe = "http_error"
        THEN Returned(stripe, FALSE, "StripeAPIError", NoConfirmation)
        ELSE IF ctx.stripe = "transport_error" THEN Escaped(stripe, "httpx.TransportError")
        ELSE HandlerState("attempting", ranked_slots, stripe, NoResult)

\* one pass of the loop body of _book_clubspark for a ranked slot: the calls it
\* makes and how it ends ("booked", "continue" or "escaped")
clubspark_attempt(c) ==
    LET pay == <<ExternalCall("create_payment", c.id)>>
        ses == Append(pay, ExternalCall("request_session", c.id))
        end(made, how, code) == [made |-> made, how |-> how, confirmation |-> code]
    IN  IF c.outcome.payment = "http_error" THEN end(pay, "continue", NoConfirmation)
        ELSE IF c.outcome.payment = "transport_error" THEN end(pay, "escaped", NoConfirmation)
        ELSE IF c.outcome.payment = "no_id" THEN end(pay, "continue", NoConfirmation)
        ELSE IF c.outcome.session = "http_error" THEN end(ses, "continue", NoConfirmation)
        ELSE IF c.outcome.session = "transport_error" THEN end(ses, "escaped", NoConfirmation)
        ELSE IF c.outcome.session = "negative" THEN end(ses, "continue", NoConfirmation)
        ELSE IF c.outcome.session = "no_transaction"
        THEN end(ses, "booked", Confirmation("payment.ID", c.id))
        ELSE end(ses, "booked", Confirmation("TransactionID", c.id))

\* better _normalize_courts: empty entries dropped, the first of the entries
\* that differ only in case kept
RECURSIVE normalize_courts(_)
normalize_courts(values) ==
    IF values = << >> THEN << >>
    ELSE LET normalized == normalize_courts(SubSeq(values, 1, Len(values) - 1))
             text == values[Len(values)]
         IN  IF text = << >> \/ \E i \in 1..Len(normalized) : lower(normalized[i]) = lower(text)
             THEN normalized
             ELSE Append(normalized, text)

\* the window a candidate belongs to
WindowOf(c) == ((c.id - 1) \div NumCourts) + 1

\* activity.spaces of the w-th window
Spaces(ctx, w) == IF ctx.defect = "full" /\ w = 1 THEN 0 ELSE NumCourts

\* better _select_activities: the windows with spaces whose start time is one
\* of the preferred times, in the provider's order
select_activities(ctx) ==
    LET preferred_lookup == { preferred_times(ctx)[i] : i \in 1..Len(preferred_times(ctx)) }
        keep(w) == /\ Spaces(ctx, w) > 0
                   /\ (preferred_lookup # {} => WindowTime(w) \in preferred_lookup)
        activities == IF ctx.lookup = "empty" THEN << >> ELSE [w \in 1..NumWindows |-> w]
    IN  SelectSeq(activities, keep)

\* slot.action_to_show.status = "BOOK" for a slot of the w-th window
Bookable(ctx, w) ==
    /\ ctx.defect # "none_bookable"
    /\ ~(ctx.defect = "not_bookable" /\ w = 1)

\* better _rank_slots_for_activities: the slots of the selected activities
\* whose listing answers and whose action is BOOK, ranked and sorted
rank_slots_for_activities(ctx, activities) ==
    LET selected == { activities[i] : i \in 1..Len(activities) }
        courts == normalize_courts(ctx.targetCourts)
        listed(c) == /\ WindowOf(c) \in selected
                     /\ ~(ctx.defect = "slots_http_error" /\ WindowOf(c) = 1)
                     /\ Bookable(ctx, WindowOf(c))
        slots == SelectSeq(AllCandidates(ctx), listed)
    IN  sort_by_rank([p \in 1..Len(slots) |->
            [slots[p] EXCEPT !.rank = better_rank(slots[p].time, slots[p].name,
                                                  preferred_times(ctx), courts)]])

\* the list_slots calls of _rank_slots_for_activities: one per activity, up to
\* the one that raises a transport error
list_slots_calls(ctx, activities) ==
    LET n == IF ctx.defect = "slots_transport_error" /\ activities # << >> /\ activities[1] = 1
             THEN 1 ELSE Len(activities)
    IN  [i \in 1..n |-> ExternalCall("list_slots", 0)]

\* _book_better up to the loop over the ranked slots
book_better_begin(ctx) ==
    LET times == <<ExternalCall("list_activity_times", 0)>>
        candidates == select_activities(ctx)
        listed == times \o list_slots_calls(ctx, candidates)
        ranked_slots == rank_slots_for_activities(ctx, candidates)
    IN  IF ctx.config \in {"bad_credentials", "bad_options"}
        THEN Returned(<< >>, FALSE, "Invalid Better provider configuration", NoConfirmation)
        ELSE IF ctx.lookup = "http_error"
        THEN Returned(times, FALSE, "BetterAPIError", NoConfirmation)
        ELSE IF ctx.lookup = "transport_error" THEN Escaped(times, "httpx.TransportError")
        ELSE IF candidates = << >>
        THEN Returned(times, FALSE, "No matching Better activities available", NoConfirmation)
        ELSE IF ctx.defect = "slots_transport_error" /\ candidates[1] = 1
        THEN Escaped(listed, "httpx.TransportError")
        ELSE IF ranked_slots = << >>
        THEN Returned(listed, FALSE, "No bookable Better slots found", NoConfirmation)
        ELSE HandlerState("attempting", ranked_slots, listed, NoResult)

\* variant: the booking is completed whatever the authorisation says
better_attempt_unauthorised(c, credits_allowed) ==
    LET o == c.outcome
        call(name) == ExternalCall(name, c.id)
        end(made, how, code) == [made |-> made, how |-> how, confirmation |-> code]
        cart == <<call("clear_cart"), call("add_slot_to_cart")>>
        wanted == IF o.credit > 0 /\ credits_allowed THEN o.credit ELSE 0
        credits == IF wanted > 0 THEN Append(cart, call("apply_credits")) ELSE cart
        credits_to_use == IF wanted > 0 /\ o.apply = "ok" THEN wanted ELSE 0
        needs_card == o.total > credits_to_use
        prepare == Append(credits, call("prepare_checkout"))
        validate == Append(prepare, call("validate_cvc"))
        authorise == Append(validate, call("authorise_checkout"))
        checkout == IF needs_card THEN authorise ELSE credits
        complete == Append(checkout, call("complete_booking"))
    IN  IF o.cart = "http_error" THEN end(cart, "continue", NoConfirmation)
        ELSE IF o.cart = "transport_error" THEN end(cart, "escaped", NoConfirmation)
        ELSE IF wanted > 0 /\ o.apply = "transport_error"
        THEN end(credits, "escaped", NoConfirmation)
        ELSE IF o.complete = "http_error" THEN end(complete, "continue", NoConfirmation)
        ELSE IF o.complete = "transport_error" THEN end(complete, "escaped", NoConfirmation)
        ELSE IF needs_card
        THEN end(complete, "booked", Confirmation("transaction_uuid", c.id))
        ELSE end(complete, "booked", Confirmation("itemHash", c.id))

\* _attempt_better_booking for a ranked slot: the calls it makes and how it
\* ends ("booked": a confirmation, "continue": None, or "escaped")
better_attempt(c, credits_allowed) ==
    LET o == c.outcome
        call(name) == ExternalCall(name, c.id)
        end(made, how, code) == [made |-> made, how |-> how, confirmation |-> code]
        cart == <<call("clear_cart"), call("add_slot_to_cart")>>
        wanted == IF o.credit > 0 /\ credits_allowed THEN o.credit ELSE 0
        credits == IF wanted > 0 THEN Append(cart, call("apply_credits")) ELSE cart
        credits_to_use == IF wanted > 0 /\ o.apply = "ok" THEN wanted ELSE 0
        needs_card == o.total > credits_to_use
        prepare == Append(credits, call("prepare_checkout"))
        validate == Append(prepare, call("validate_cvc"))
        authorise == Append(validate, call("authorise_checkout"))
        checkout == IF needs_card THEN authorise ELSE credits
        complete == Append(checkout, call("complete_booking"))
    IN  IF o.cart = "http_error" THEN end(cart, "continue", NoConfirmation)
        ELSE IF o.cart = "transport_error" THEN end(cart, "escaped", NoConfirmation)
        ELSE IF wanted > 0 /\ o.apply = "transport_error"
        THEN end(credits, "escaped", NoConfirmation)
        ELSE IF needs_card /\ o.prepare = "http_error"
        THEN end(prepare, "continue", NoConfirmation)
        ELSE IF needs_card /\ o.prepare = "transport_error"
        THEN end(prepare, "escaped", NoConfirmation)
        ELSE IF needs_card /\ o.validate = "http_error"
        THEN end(validate, "continue", NoConfirmation)
        ELSE IF needs_card /\ o.validate = "transport_error"
        THEN end(validate, "escaped", NoConfirmation)
        ELSE IF needs_card /\ o.authorise = "http_error"
        THEN end(authorise, "continue", NoConfirmation)
        ELSE IF needs_card /\ o.authorise = "transport_error"
        THEN end(authorise, "escaped", NoConfirmation)
        ELSE IF needs_card /\ o.status # "authorised"
        THEN end(authorise, "continue", NoConfirmation)
        ELSE IF o.complete = "http_error" THEN end(complete, "continue", NoConfirmation)
        ELSE IF o.complete = "transport_error" THEN end(complete, "escaped", NoConfirmation)
        ELSE IF needs_card
        THEN end(complete, "booked", Confirmation("transaction_uuid", c.id))
        ELSE end(complete, "booked", Confirmation("itemHash", c.id))

\* MAX_SLOT_ATTEMPTS of the provider
MaxSlotAttempts(provider) ==
    IF provider = "clubspark" THEN CLUBSPARK_MAX_SLOT_ATTEMPTS ELSE BETTER_MAX_SLOT_ATTEMPTS

\* the message of the result when the loop ends without a booking
ExhaustedMessage(provider) ==
    IF provider = "clubspark"
    THEN "Unable to confirm booking with Clubspark after multiple attempts"
    ELSE "Unable to confirm booking with Better"

\* the executions of a handler start from
InitHandler ==
    /\ now = Now0
    /\ slot = NoSlot
    /\ tasks = {}
    /\ nextId = 1
    /\ wpc = "idle"
    /\ batch = << >>
    /\ wtask = NoTask
    /\ manual = NoTask
    /\ requests = 0
    /\ registry = << >>
    /\ calls = << >>
    /\ hctx \in HandlerContexts
    /\ hpc = "start"
    /\ hranked = << >>
    /\ hnext = 0
    /\ hcalls = << >>
    /\ hresult = NoResult
    /\ LoopIdle
    /\ wsync = NoSync

\* the handler runs up to its loop: validation, lookups, ranking
HandlerBegin(provider, begun) ==
    /\ hpc = "start"
    /\ hctx.provider = provider
    /\ hpc' = begun.hpc
    /\ hranked' = begun.hranked
    /\ hcalls' = begun.hcalls
    /\ hresult' = begun.hresult
    /\ hnext' = IF begun.hpc = "attempting" THEN 1 ELSE 0
    /\ UNCHANGED <<hctx, now, slot, tasks, nextId, wpc, batch, wtask, manual, requests>>
    /\ UNCHANGED <<regvars, loopvars, syncvars>>

\* one iteration of the loop over ranked_slots[:MAX_SLOT_ATTEMPTS], and the
\* return after the loop when it was the last one
HandlerAttempt(provider, attempt, booked_message) ==
    /\ hpc = "attempting"
    /\ hctx.provider = provider
    /\ hcalls' = hcalls \o attempt.made
    /\ IF attempt.how = "booked"
       THEN /\ hpc' = "returned"
            /\ hresult' = BookingResult(TRUE, booked_message, attempt.confirmation)
            /\ hnext' = hnext
       ELSE IF attempt.how = "escaped"
       THEN /\ hpc' = "escaped"
            /\ hresult' = BookingResult(FALSE, "httpx.TransportError", NoConfirmation)
            /\ hnext' = hnext
       ELSE IF hnext < Len(hranked) /\ hnext < MaxSlotAttempts(provider)
       THEN /\ hpc' = "attempting"
            /\ hresult' = hresult
            /\ hnext' = hnext + 1
       ELSE /\ hpc' = "returned"
            /\ hresult' = BookingResult(FALSE, ExhaustedMessage(provider), NoConfirmation)
            /\ hnext' = hnext
    /\ UNCHANGED <<hctx, hranked, now, slot, tasks, nextId, wpc, batch, wtask, manual,
                   requests>>
    /\ UNCHANGED <<regvars, loopvars, syncvars>>

book_clubspark_start ==
    /\ hpc = "start"
    /\ hctx.provider = "clubspark"
    /\ HandlerBegin("clubspark", book_clubspark_begin(hctx))

book_clubspark_attempt ==
    /\ hpc = "attempting"
    /\ hctx.provider = "clubspark"
    /\ HandlerAttempt("clubspark", clubspark_attempt(hranked[hnext]), "Booked Clubspark")

book_better_start ==
    /\ hpc = "start"
    /\ hctx.provider = "better"
    /\ HandlerBegin("better", book_better_begin(hctx))

book_better_attempt ==
    /\ hpc = "attempting"
    /\ hctx.provider = "better"
    /\ HandlerAttempt("better", better_attempt(hranked[hnext], hctx.useCredits),
                      "Booked Better")

NextHandler ==
    \/ book_clubspark_start
    \/ book_clubspark_attempt
    \/ book_better_start
    \/ book_better_attempt

SpecHandler == InitHandler /\ [][NextHandler]_vars

----------------------------------------------------------------------------
(* run_forever on its own: the worker's loop over passes on a range of task
   tables, without requests *)

\* the tables the worker starts on: none, one or two pending rows, due or not
WorkerTables ==
    {{}}
    \cup { {BookingTask(1, Now0 + Week, a)} : a \in {None, Now0 - Minute, Now0 + Week} }
    \cup { {BookingTask(1, Now0 + Week, a), BookingTask(2, Now0 + 2 * Week, b)}
             : a \in {None, Now0 - Minute, Now0 + Week},
               b \in {Now0 - Minute, Now0 + 2 * Week} }

InitWorker ==
    /\ now = Now0
    /\ slot \in { MakeSlot(cfg, active) : cfg \in SlotConfigs, active \in BOOLEAN }
    /\ tasks \in WorkerTables
    /\ nextId = Cardinality(tasks) + 1
    /\ wpc = "idle"
    /\ batch = << >>
    /\ wtask = NoTask
    /\ manual = NoTask
    /\ requests = 0
    /\ registry = << >>
    /\ calls = << >>
    /\ HandlerIdle
    /\ LoopIdle
    /\ wsync = NoSync

\* where run_forever stands when a pass has returned processed
AfterPass(processed) == IF processed = 0 THEN "sleep" ELSE "run_once"

\* run_once: the query of _process_due_tasks; an empty result returns 0
run_once_query ==
    /\ wloop.pos = "run_once"
    /\ process_due_tasks
    /\ wloop' = IF batch' = << >>
                THEN WorkerLoop(AfterPass(0), 0, 0)
                ELSE WorkerLoop("in_pass", Len(batch'), 0)
    /\ UNCHANGED <<regvars, hvars, syncvars>>

\* the pass goes on, ends with the sum of the return values, or the process ends
LoopAfterTask(processed) ==
    IF wpc' = "crashed" THEN WorkerLoop("stopped", wloop.found, processed)
    ELSE IF wpc' = "idle" THEN WorkerLoop(AfterPass(processed), wloop.found, processed)
    ELSE WorkerLoop("in_pass", wloop.found, processed)

\* _process_task up to the claim: a missing or inactive slot returns 0
run_once_claim ==
    /\ wloop.pos = "in_pass"
    /\ process_task_claim
    /\ wloop' = LoopAfterTask(wloop.processed)
    /\ UNCHANGED <<regvars, hvars, syncvars>>

\* _process_task from the executor call on: returns 1 when the execution
\* succeeded and 0 when it failed
run_once_run(env) ==
    /\ wloop.pos = "in_pass"
    /\ process_task_run(env)
    /\ wloop' = LoopAfterTask(wloop.processed +
                    (IF wtask \in TaskIds(tasks) /\
                        execute_booking_task(TaskById(tasks, wtask), slot, env, now).raised
                            = "none"
                     THEN 1 ELSE 0))
    /\ UNCHANGED <<regvars, hvars, syncvars>>

\* time.sleep(poll_interval_seconds) returns
sleep ==
    /\ wloop.pos = "sleep"
    /\ wloop' = [wloop EXCEPT !.pos = "run_once"]
    /\ UNCHANGED <<now, slot, tasks, nextId, wpc, batch, wtask, manual, requests>>
    /\ UNCHANGED <<regvars, hvars, syncvars>>

RunOnceRun == \E env \in ExecEnvs : run_once_run(env)

NextWorker ==
    \/ run_once_query
    \/ run_once_claim
    \/ RunOnceRun
    \/ sleep

SpecWorker == InitWorker /\ [][NextWorker]_vars

----------------------------------------------------------------------------
(* The worker process beside the API process.  The routes are coroutines
   without an await, so the API process serves one request at a time; the
   worker is another process with its own session, and each of its queries
   and commits can fall between two requests or inside a run-now request
   that waits for its handler.  The worker's sync_pending_tasks is taken
   in two steps: its queries, and the commit of what it decided. *)

\* requests served in a run of the two processes side by side
MaxConcurrentRequests == 4

\* ids the worker's inserts may reach in such a run
MaxWorkerId == 3

ArriveConcurrent == requests < MaxConcurrentRequests /\ requests' = requests + 1

\* the API process is free to take a request
ApiFree == manual = NoTask

\* _process_task from the executor call to the commit of its outcome
\* (execute_booking_task, or _mark_failed in an except branch)
process_task_execute(env) ==
    /\ wpc = "claimed"
    /\ IF wtask \notin TaskIds(tasks)
       THEN /\ wpc' = "crashed"
            /\ wtask' = NoTask
            /\ tasks' = tasks
            /\ wsync' = NoSync
       ELSE LET t == TaskById(tasks, wtask)
                x == execute_booking_task(t, slot, env, now)
                synced == x.raised = "none" \/ slot.is_active
            IN  /\ tasks' = IF x.raised = "none" THEN PutTask(tasks, x.task)
                            ELSE PutTask(tasks, mark_failed(t, x.message))
                /\ wpc' = IF synced THEN "sync" ELSE AfterTask(batch)
                /\ wtask' = IF synced THEN wtask ELSE NoTask
                /\ wsync' = SyncPlan({}, << >>, x.raised = "none")
    /\ UNCHANGED <<now, slot, nextId, batch, manual, requests>>

\* sync_pending_tasks in the worker, up to the end of its queries
process_task_sync_read ==
    /\ wpc = "sync"
    /\ IF ~slot.is_active
       THEN /\ wpc' = AfterTask(batch)
            /\ wtask' = NoTask
            /\ wsync' = NoSync
       ELSE LET r == sync_pending_tasks(tasks, nextId, slot, now, QueueCount, FALSE)
                updates == { [id |-> t.id, attempt_at |-> t.attempt_at]
                             : t \in { u \in r.tasks : u.id < nextId /\ u \notin tasks } }
                inserts == [i \in 1..(r.nextId - nextId) |->
                               LET t == TaskById(r.tasks, nextId + i - 1)
                               IN  [scheduled_date |-> t.scheduled_date,
                                    attempt_at |-> t.attempt_at]]
            IN  /\ wpc' = "commit"
                /\ wtask' = wtask
                /\ wsync' = SyncPlan(updates, inserts, wsync.protected)
    /\ UNCHANGED <<now, slot, tasks, nextId, batch, manual, requests>>

\* the rows after the flush of the plan: UPDATE ... WHERE id for the attempt
\* instants, INSERT with the next ids for the new rows
flush(ts, nid, plan) ==
    { IF \E u \in plan.updates : u.id = t.id
      THEN [t EXCEPT !.attempt_at = (CHOOSE u \in plan.updates : u.id = t.id).attempt_at]
      ELSE t : t \in ts }
    \cup { BookingTask(nid + i - 1, plan.inserts[i].scheduled_date, plan.inserts[i].attempt_at)
           : i \in 1..Len(plan.inserts) }

\* str(StaleDataError): an UPDATE of the flush matched no row
StaleData == "UPDATE statement on table 'booking_tasks' expected to update 1 row(s); 0 were matched."

\* the commit that ends the worker's sync_pending_tasks.  A row of the plan
\* that is gone makes the flush raise.  Inside the try block the except branch
\* rolls back, marks the executed task failed and, the slot being active,
\* syncs again; outside it, or when the executed row is gone too, the
\* exception leaves run_forever and the process ends
process_task_sync_commit ==
    /\ wpc = "commit"
    /\ IF \A u \in wsync.updates : u.id \in TaskIds(tasks)
       THEN /\ nextId + Len(wsync.inserts) <= MaxWorkerId + 1
            /\ tasks' = flush(tasks, nextId, wsync)
            /\ nextId' = nextId + Len(wsync.inserts)
            /\ wpc' = AfterTask(batch)
            /\ wtask' = NoTask
            /\ wsync' = NoSync
       ELSE IF wsync.protected /\ wtask \in TaskIds(tasks)
       THEN /\ tasks' = PutTask(tasks, mark_failed(TaskById(tasks, wtask), StaleData))
            /\ nextId' = nextId
            /\ wpc' = IF slot.is_active THEN "sync" ELSE AfterTask(batch)
            /\ wtask' = IF slot.is_active THEN wtask ELSE NoTask
            /\ wsync' = NoSync
       ELSE /\ nextId' = nextId
            /\ tasks' = tasks
            /\ wpc' = "crashed"
            /\ wtask' = NoTask
            /\ wsync' = NoSync
    /\ UNCHANGED <<now, slot, batch, manual, requests>>

WorkerExecute ==
    /\ \E env \in ExecEnvs : process_task_execute(env)
    /\ UNCHANGED <<regvars, hvars, loopvars>>
WorkerSyncRead == process_task_sync_read /\ UNCHANGED <<regvars, hvars, loopvars>>
WorkerSyncCommit == process_task_sync_commit /\ UNCHANGED <<regvars, hvars, loopvars>>

NextConcurrent ==
    \/ Tick
    \/ ApiFree /\ ArriveConcurrent /\ CreateSlot
    \/ ApiFree /\ ArriveConcurrent /\ UpdateSlot
    \/ ApiFree /\ ArriveConcurrent /\ Resync
    \/ ApiFree /\ ArriveConcurrent /\ Cancel
    \/ ApiFree /\ ArriveConcurrent /\ Reactivate
    \/ ApiFree /\ ArriveConcurrent /\ RunNowClaim
    \/ RunNowRun
    \/ WorkerPoll
    \/ WorkerClaim
    \/ WorkerExecute
    \/ WorkerSyncRead
    \/ WorkerSyncCommit

SpecConcurrent == Init /\ [][NextConcurrent]_vars

----------------------------------------------------------------------------
(* Properties *)

Terminal == {"success", "failed", "cancelled"}

\* pending tasks whose occurrence is not before nowv
FuturePending(ts, nowv) == { t \in ts : t.status = "pending" /\ t.scheduled_date >= nowv }
PendingDates(ts) == { t.scheduled_date : t \in PendingTasks(ts) }

\* the step ran sync_pending_tasks(slot, count) on an active slot and returned
SyncReturned(count) ==
    \/ count = QueueCount /\ \E cfg \in SlotConfigs : create_booking_slot(cfg, TRUE)
    \/ count = QueueCount /\ \E cfg \in SlotConfigs : update_booking_slot(cfg, TRUE)
    \/ slot.is_active /\ resync_booking_tasks(count)
    \/ count = QueueCount /\ slot.is_active
         /\ \E id \in TaskIds(tasks) : cancel_booking_task(id, 200)
    \/ count = QueueCount /\ slot.is_active /\ manual \in TaskIds(tasks)
         /\ \E env \in ExecEnvs, code \in {200, 502} : execute_task_now_run(env, code)
    \/ count = QueueCount /\ slot.is_active /\ wtask \in TaskIds(tasks)
         /\ \E env \in ExecEnvs : process_task_run(env)

\* C1: when sync_pending_tasks(slot, count) returns for an active slot, the
\* slot has at least count pending tasks whose occurrence is not before the
\* call's now, whatever tasks it had before.
\* (stated contrapositively: a step that leaves fewer is not such a return)
C1_SyncTopsUp ==
    [][\A count \in 1..(QueueCount + 1) :
          Cardinality(FuturePending(tasks', now')) < count => ~SyncReturned(count)]_vars

\* a sync has topped the queue up next to a success, a failed or a cancelled task
C1_Witness ==
    /\ slot.is_active
    /\ \E t \in tasks : /\ t.status \in Terminal /\ t.scheduled_date >= now
                        /\ \E u \in FuturePending(tasks, now) : u.id > t.id
    /\ Cardinality(FuturePending(tasks, now)) >= QueueCount

\* C2: no step creates a pending task at the occurrence of a success, failed
\* or cancelled task of the slot whose occurrence is still ahead: sync, with or
\* without reset_existing, inserts other occurrences instead.
C2_NoRequeue ==
    [][\A t \in tasks' :
          (t.status \in Terminal /\ t.scheduled_date >= now')
          => ~\E u \in tasks' : /\ u.id \notin TaskIds(tasks)
                                /\ u.status = "pending"
                                /\ u.scheduled_date = t.scheduled_date]_vars

\* a handled occurrence is still ahead and a task inserted after it is pending
\* at a later occurrence
C2_Witness ==
    \E t, u \in tasks :
        /\ t.status \in {"failed", "cancelled"} /\ t.scheduled_date > now
        /\ u.status = "pending" /\ u.id > t.id /\ u.scheduled_date > t.scheduled_date

\* C3: no two pending tasks of the slot have the same occurrence instant.
C3_NoDuplicatePending ==
    \A t, u \in tasks :
        (t.status = "pending" /\ u.status = "pending" /\ t.id # u.id)
        => t.scheduled_date # u.scheduled_date

\* a reactivated task is pending next to the task that replaced it in the queue
C3_Witness ==
    /\ slot.is_active
    /\ \E t, u \in tasks : /\ t.status = "pending" /\ u.status = "pending"
                           /\ t.id < u.id /\ t.scheduled_date < u.scheduled_date
    /\ Cardinality(PendingTasks(tasks)) > QueueCount
    /\ requests >= 3

\* C4: right after sync_pending_tasks(slot, count) returned, a second call
\* with the same count at the same reference time inserts and deletes nothing
\* and leaves the same set of pending occurrence instants.
\* (stated contrapositively: a step after which a second call would change
\* something is not such a return)
C4_SyncIdempotent ==
    [][\A count \in 1..(QueueCount + 1) :
          LET again == sync_pending_tasks(tasks', nextId', slot', now', count, FALSE)
          IN  ~(/\ TaskIds(again.tasks) = TaskIds(tasks')
                /\ again.nextId = nextId'
                /\ PendingDates(again.tasks) = PendingDates(tasks'))
              => ~SyncReturned(count)]_vars

\* a resetting sync has replaced the queue it found and has returned
C4_Witness ==
    /\ slot.is_active
    /\ Cardinality(FuturePending(tasks, now)) = QueueCount
    /\ \A t \in tasks : t.status = "pending"
    /\ nextId > QueueCount + 1

\* C5: deactivating an active slot through slot update cancels every pending
\* task of the slot, so none is pending afterwards, and a sync_pending_tasks
\* call on an inactive slot, also with reset_existing, changes nothing.
C5_DeactivateCancels ==
    [][/\ (slot.is_active /\ \E cfg \in SlotConfigs : update_booking_slot(cfg, FALSE))
          => /\ PendingTasks(tasks') = {}
             /\ TaskIds(tasks') = TaskIds(tasks)
             /\ \A t \in tasks : t.status = "pending"
                   => TaskById(tasks', t.id).status = "cancelled"
       /\ (~slot.is_active /\ \E count \in 1..(QueueCount + 1) : resync_booking_tasks(count))
          => tasks' = tasks /\ nextId' = nextId]_vars

\* the slot is inactive, its queued tasks were cancelled by the deactivation
C5_Witness ==
    /\ slot.exists /\ ~slot.is_active
    /\ PendingTasks(tasks) = {}
    /\ \E t \in tasks : t.status = "cancelled" /\ t.error_message = "Slot was deactivated"
    /\ requests >= 3

\* rank of a status in the forward order pending, processing, terminal
Rank(st) == IF st = "pending" THEN 0 ELSE IF st = "processing" THEN 1 ELSE 2

\* C6: a task's status only moves forward; success and failed never change, and
\* the one backward move is cancelled to pending while the occurrence is not past.
C6_StatusForward ==
    [][\A t \in tasks : \A u \in tasks' :
          (u.id = t.id /\ u.status # t.status) =>
             \/ t.status = "cancelled" /\ u.status = "pending" /\ t.scheduled_date >= now
             \/ t.status \notin Terminal /\ Rank(u.status) > Rank(t.status)]_vars

\* C7: cancel answers 200 exactly for a pending task, reactivate answers 200
\* exactly for a cancelled task whose occurrence is not past; every other
\* request is answered 400 and leaves the task's status and error message
\* alone; a reactivated task is pending with no error message.
C7_CancelReactivateGuards ==
    [][\A id \in TaskIds(tasks), code \in Codes :
          /\ cancel_booking_task(id, code) =>
                LET t == TaskById(tasks, id)
                IN  /\ code = 200 <=> t.status = "pending"
                    /\ code = 200 => TaskById(tasks', id).status = "cancelled"
                    /\ code # 200 => code = 400 /\ TaskById(tasks', id) = t
          /\ reactivate_booking_task(id, code) =>
                LET t == TaskById(tasks, id)
                IN  /\ code = 200 <=> (t.status = "cancelled" /\ ~(t.scheduled_date < now))
                    /\ code = 200 => /\ TaskById(tasks', id).status = "pending"
                                     /\ TaskById(tasks', id).error_message = NoMessage
                    /\ code # 200 => code = 400 /\ TaskById(tasks', id) = t]_vars

\* a task cancelled by the slot's deactivation was reactivated: it is pending
\* under an inactive slot, with its error message cleared
C7_Witness ==
    /\ slot.exists /\ ~slot.is_active
    /\ \E t \in tasks : /\ t.status = "pending" /\ t.error_message = NoMessage
                        /\ ~(t.scheduled_date < now)

FailureEnvs == { e \in ExecEnvs : ~e.provider \/ ~e.owner
                    \/ e.handler \in {"failure", "failure_no_message", "unregistered"} }
Range(f) == { f[i] : i \in DOMAIN f }

C9_ClaimBeforeHandler ==
    /\ wpc = "claimed" =>
          /\ wtask \in TaskIds(tasks)
          /\ TaskById(tasks, wtask).status = "processing"
          /\ TaskById(tasks, wtask).attempted_at # None
    /\ manual # NoTask =>
          /\ manual \in TaskIds(tasks)
          /\ TaskById(tasks, manual).status = "processing"
          /\ TaskById(tasks, manual).attempted_at # None

\* the worker has claimed a task and not yet called the executor
C9_Witness ==
    /\ wpc = "claimed"
    /\ TaskById(tasks, wtask).attempted_at = now

\* C10: every task the worker claims is pending and due when it is claimed
\* (attempt instant unset or not later than now), also later in a batch.
C10_ClaimedIsDue ==
    [][(process_task_claim /\ wpc' = "claimed")
          => LET t == TaskById(tasks, wtask')
             IN  t.status = "pending" /\ (t.attempt_at = None \/ t.attempt_at <= now)]_vars

\* C11: every step that moves a task of an active slot into success, failed
\* or cancelled (worker, run-now, cancel, generic task update) leaves the slot
\* with at least the default count of future pending tasks.
C11_TerminalMoveSyncs ==
    [][(/\ slot.is_active /\ slot'.is_active
        /\ \E t \in tasks : /\ t.status \notin Terminal
                            /\ \E u \in tasks' : u.id = t.id /\ u.status \in Terminal)
       => Cardinality(FuturePending(tasks', now')) >= QueueCount]_vars

\* C12: when a sync, cancel, reactivate, execute or resync on an active slot
\* has returned, the slot has exactly count future pending tasks (count: the
\* one passed to sync, the default for cancel, reactivate and execute).
C12_ExactlyCount ==
    [][\A count \in 1..(QueueCount + 1) :
          (\/ SyncReturned(count)
           \/ /\ count = QueueCount /\ slot.is_active
              /\ \E id \in TaskIds(tasks) : reactivate_booking_task(id, 200))
          => Cardinality(FuturePending(tasks', now')) = count]_vars

\* C13: every attempt instant computed with a reference instant is at least
\* one minute after the reference.
C13_AttemptAfterReferencePlusMinute ==
    \A t \in tasks : t.attempt_at >= now + Minute

\* C14: when sync_pending_tasks returns, every future pending task of the
\* slot, created by the call or found by it, has an attempt instant strictly
\* after the now of the call, even when the offset or the release time of the
\* slot places the attempt in the past.
C14_SyncedAttemptAfterNow ==
    [][(\E t \in FuturePending(tasks', now') :
            t.attempt_at = None \/ t.attempt_at <= now')
       => ~\E count \in 1..(QueueCount + 1) : SyncReturned(count)]_vars

\* the queue of an active slot holds a task whose configured attempt instant
\* was in the past and was moved to one minute after the sync's now
C14_Witness ==
    /\ slot.exists /\ slot.is_active
    /\ \E t \in FuturePending(tasks, now) :
          /\ t.attempt_at = now + Minute
          /\ calculate_attempt_at_unclamped(slot, t.scheduled_date, now) <= now

\* the caller-facing weekday (0 = Sunday .. 6 = Saturday) of a slot-local instant
UiWeekday(local) == (Weekday(local) + 1) % 7

\* C15: for a weekly or fortnightly slot, every occurrence computed for an
\* offset and a reference instant falls, in the slot's zone, on the slot's
\* caller-facing weekday at the slot's time, and is strictly after the
\* reference (so generate_upcoming_tasks drops none of them).
C15_WeeklyOnWeekdayAtTime ==
    slot.frequency \in {"weekly", "fortnightly"}
    => /\ TaskIds(tasks) = 1..(nextId - 1)
       /\ \A t \in tasks :
             LET local == ToLocal(t.scheduled_date, slot.timezone)
             IN  /\ UiWeekday(local) = slot.day_of_week
                 /\ MinuteOfDay(local) = slot.time
                 /\ t.scheduled_date > now

\* all offsets of a Sunday slot (weekday 0) west of UTC were computed
C15_Witness ==
    /\ slot.frequency = "fortnightly" /\ slot.day_of_week = 0 /\ slot.timezone < 0
    /\ nextId > MaxOffsets
    /\ \E t \in tasks : Weekday(ToLocal(t.scheduled_date, slot.timezone)) = 6

\* the days between two occurrences of the slot's frequency
Increment == IF slot.frequency = "weekly" THEN 7 ELSE 14

\* C16: for a weekly (fortnightly) slot and one reference instant, the
\* occurrences of offsets 0, 1, 2, ... are strictly increasing, each exactly
\* 7 (14) days after the one before; no two offsets give the same occurrence.
C16_WeeklyStrictlyIncreasing ==
    slot.frequency \in {"weekly", "fortnightly"}
    => \A t \in tasks, u \in tasks :
          u.id = t.id + 1 => u.scheduled_date = t.scheduled_date + Increment * Day

\* year * 12 + month - 1 of an instant in the slot's zone
MonthIndex(t) ==
    LET n == DayIndex(ToLocal(t, slot.timezone))
    IN  YearOfDay(n) * 12 + MonthOfDay(n) - 1

\* day of the month of an instant in the slot's zone
DayOfMonth(t) ==
    LET n == DayIndex(ToLocal(t, slot.timezone))
    IN  n - CivilToDay(YearOfDay(n), MonthOfDay(n), 1) + 1

\* number of days of the month of an instant in the slot's zone
MonthLength(t) ==
    LET n == DayIndex(ToLocal(t, slot.timezone))
    IN  monthrange(YearOfDay(n), MonthOfDay(n))

\* C17: for a monthly slot and one reference instant, the occurrences of
\* offsets 0, 1, 2, ... fall in consecutive calendar months, none skipped or
\* repeated, each on day min(day_of_month, length of the month) at the slot's
\* time, and the first is strictly after the reference.
C17_MonthlyConsecutiveClamped ==
    slot.frequency = "monthly"
    => /\ TaskIds(tasks) = 1..(nextId - 1)
       /\ \A t \in tasks :
             LET desired == IF slot.day_of_month = None THEN 1 ELSE slot.day_of_month
             IN  /\ DayOfMonth(t.scheduled_date)
                      = IF desired < MonthLength(t.scheduled_date)
                        THEN desired ELSE MonthLength(t.scheduled_date)
                 /\ MinuteOfDay(ToLocal(t.scheduled_date, slot.timezone)) = slot.time
                 /\ t.id = 1 => t.scheduled_date > now
                 /\ \A u \in tasks :
                       u.id = t.id + 1
                       => MonthIndex(u.scheduled_date) = MonthIndex(t.scheduled_date) + 1

\* day-of-month 31 gave 29 February, 31 March and 30 April
C17_Witness ==
    /\ slot.frequency = "monthly" /\ slot.day_of_month = 31
    /\ Cardinality(tasks) = 3
    /\ \E t \in tasks : t.id = 1 /\ DayOfMonth(t.scheduled_date) = 29
    /\ \E t \in tasks : t.id = 2 /\ DayOfMonth(t.scheduled_date) = 31
    /\ \E t \in tasks : t.id = 3 /\ DayOfMonth(t.scheduled_date) = 30

\* the release instant of an occurrence: its date in the slot's zone minus
\* release_days_before days, at release_time (00:00 when unset) in that zone
ReleaseInstant(scheduled_at) ==
    LET local_date == DayIndex(ToLocal(scheduled_at, slot.timezone))
        release_time == IF slot.release_time = None THEN 0 ELSE slot.release_time
    IN  ToUtc((local_date - slot.release_days_before) * Day + release_time, slot.timezone)

\* C18: with the release strategy the attempt instant is the occurrence's
\* slot-local date minus release_days_before days at slot-local release_time
\* (00:00 when unset), whenever that instant is after the reference; a Sunday
\* 10:00 occurrence with release_days_before 1 and release_time 07:15 is
\* attempted on Saturday 07:15 local.
C18_ReleaseInstant ==
    slot.attempt_strategy = "release"
    => \A t \in tasks :
          ReleaseInstant(t.scheduled_date) > now
          => LET attempt_local == ToLocal(t.attempt_at, slot.timezone)
                 scheduled_local == ToLocal(t.scheduled_date, slot.timezone)
             IN  /\ t.attempt_at = ReleaseInstant(t.scheduled_date)
                 /\ DayIndex(attempt_local)
                      = DayIndex(scheduled_local) - slot.release_days_before
                 /\ MinuteOfDay(attempt_local)
                      = (IF slot.release_time = None THEN 0 ELSE slot.release_time)
                 /\ (/\ UiWeekday(scheduled_local) = 0
                     /\ slot.release_days_before = 1
                     /\ slot.release_time = (7 * 60 + 15) * Minute)
                    => /\ UiWeekday(attempt_local) = 6
                       /\ MinuteOfDay(attempt_local) = (7 * 60 + 15) * Minute

\* a Sunday 10:00 occurrence west of UTC is attempted on Saturday 07:15 local
C18_Witness ==
    /\ slot.attempt_strategy = "release" /\ slot.release_days_before = 1
    /\ slot.timezone < 0 /\ slot.day_of_week = 0
    /\ \E t \in tasks :
          /\ ReleaseInstant(t.scheduled_date) > now
          /\ UiWeekday(ToLocal(t.scheduled_date, slot.timezone)) = 0
          /\ UiWeekday(ToLocal(t.attempt_at, slot.timezone)) = 6
          /\ MinuteOfDay(ToLocal(t.attempt_at, slot.timezone)) = (7 * 60 + 15) * Minute

\* two characters are the same letter in either case
SameLetter(c, d) == c = d \/ {c, d} \in {{"a", "A"}, {"b", "B"}}

\* two provider types differ in letter case at most
CaseVariant(a, b) == Len(a) = Len(b) /\ \A i \in 1..Len(a) : SameLetter(a[i], b[i])

\* the handler most recently registered under a case variant of the type and
\* not unregistered since, by the calls that returned; NoHandler when none
RECURSIVE LatestRegistered(_, _)
LatestRegistered(log, provider_type) ==
    IF log = << >> THEN NoHandler
    ELSE LET c == log[Len(log)]
         IN  IF /\ c.raised = NoError /\ c.op \in {"register", "unregister"}
                /\ CaseVariant(c.provider_type, provider_type)
             THEN (IF c.op = "register" THEN c.handler ELSE NoHandler)
             ELSE LatestRegistered(SubSeq(log, 1, Len(log) - 1), provider_type)

\* C19: after any sequence of register and unregister calls, the lookup of a
\* provider type returns the handler most recently registered under a
\* letter-case variant of the type and not unregistered since, and raises
\* BookingProviderNotRegisteredError, returning no result, when there is none;
\* register with an empty type raises ValueError and leaves the registry
\* unchanged.
C19_RegistryCaseInsensitive ==
    [][/\ \A provider_type \in ProviderTypes :
             LET r == lookup_handler(registry', provider_type)
                 e == LatestRegistered(calls', provider_type)
             IN  IF e = NoHandler
                 THEN r.raised = "BookingProviderNotRegisteredError"
                      /\ r.returned = NoHandler
                 ELSE r.raised = NoError /\ r.returned = e
       /\ \A provider_type \in ProviderTypes :
             run_booking_lookup(provider_type)
             => LET c == calls'[Len(calls')]
                    e == LatestRegistered(calls, provider_type)
                IN  /\ c.returned = e
                    /\ c.raised = IF e = NoHandler
                                  THEN "BookingProviderNotRegisteredError" ELSE NoError
       /\ \A handler \in Handlers :
             register_provider_handler(<< >>, handler)
             => /\ registry' = registry
                /\ calls'[Len(calls')].raised = "ValueError"]_vars

\* a handler registered under one spelling was replaced under another spelling
\* and the lookup under the first spelling returned the replacement
C19_Witness ==
    /\ Len(calls) = 3
    /\ calls[1].op = "register" /\ calls[1].handler = "handler_1"
    /\ calls[2].op = "register" /\ calls[2].handler = "handler_2"
    /\ calls[1].provider_type # calls[2].provider_type
    /\ calls[3].op = "lookup" /\ calls[3].provider_type = calls[1].provider_type
    /\ calls[3].returned = "handler_2"

\* C20: when the handler returns success, execute_booking_task sets the task
\* to success, clears its error message, keeps an attempted_at that was set
\* (stamping it only when unset) and commits the row; when the handler reports
\* a failure or none is registered, it raises BookingExecutionError and leaves
\* the task's status and error message as they were.
C20_ExecutorWritesOnlyOnSuccess ==
    [][\A env \in ExecEnvs :
          execute_booking_task_call(env)
          => LET t == TaskById(tasks, manual)
                 u == TaskById(tasks', manual)
                 x == execute_booking_task(t, slot, env, now)
             IN  IF env.provider /\ env.owner /\ env.handler = "success"
                 THEN /\ x.raised = "none"
                      /\ u.status = "success"
                      /\ u.error_message = NoMessage
                      /\ u.attempted_at = (IF t.attempted_at = None
                                           THEN now ELSE t.attempted_at)
                      /\ x.task = u
                 ELSE IF env.provider /\ env.owner
                         /\ env.handler \in {"failure", "failure_no_message", "unregistered"}
                 THEN /\ x.raised = "BookingExecutionError"
                      /\ u.status = t.status /\ u.error_message = t.error_message
                      /\ x.task.status = t.status
                      /\ x.task.error_message = t.error_message
                 ELSE x.raised # "none" /\ u = t]_vars

\* a call succeeded on a row that was already stamped and carried a message:
\* the stamp is the earlier one, the message is gone
C20_Witness ==
    /\ manual = NoTask /\ nextId = 2
    /\ \E t \in tasks : /\ t.status = "success" /\ t.error_message = NoMessage
                        /\ t.attempted_at = Now0 - Minute /\ t.attempted_at < now

\* the booking attempts made so far: the first call of each one
Attempts == SelectSeq(hcalls, LAMBDA x : x.call \in {"create_payment", "clear_cart"})

\* the execution has left the handler
HandlerDone == hpc \in {"returned", "escaped"}

\* C21: a handler execution attempts at most 3 (Clubspark) or 5 (Better)
\* candidates, in the order of the ranked list, which ascends by rank with
\* equal-ranked candidates in the provider's order, and the last attempt of a
\* successful execution is the one that booked
C21_AttemptsBoundedInRankOrder ==
    hctx.provider \in {"clubspark", "better"} =>
        /\ Len(Attempts) <= MaxSlotAttempts(hctx.provider)
        /\ Len(Attempts) <= Len(hranked)
        /\ \A i \in 1..Len(Attempts) : Attempts[i].cand = hranked[i].id
        /\ \A i \in 1..Len(hranked) : \A j \in (i + 1)..Len(hranked) :
              \/ hranked[i].rank < hranked[j].rank
              \/ hranked[i].rank = hranked[j].rank /\ hranked[i].id < hranked[j].id
        /\ hresult.success =>
              /\ Attempts # << >>
              /\ hresult.confirmation_code.id = Attempts[Len(Attempts)].cand

C21_Witness ==
    /\ hctx.provider = "better"
    /\ hpc = "returned"
    /\ ~hresult.success
    /\ Len(Attempts) = BETTER_MAX_SLOT_ATTEMPTS
    /\ Len(hranked) > BETTER_MAX_SLOT_ATTEMPTS
    /\ hranked[1].rank = hranked[2].rank
    /\ hranked[3].id < hranked[1].id

\* the candidate can be booked: every call made for it answers and the
\* payment goes through
CanBook(c) ==
    IF hctx.provider = "clubspark"
    THEN c.outcome \in { ClubsparkBookable[i] : i \in 1..Len(ClubsparkBookable) }
    ELSE c.outcome \in { BetterBookable[i] : i \in 1..Len(BetterBookable) }

\* the positions among the first K ranked candidates that can be booked
BookableAmongFirst ==
    { i \in 1..Len(hranked) : i <= MaxSlotAttempts(hctx.provider) /\ CanBook(hranked[i]) }

\* C22: an execution that reached the attempt loop ends with a result, never
\* an exception; the result is a success exactly when one of the first K
\* ranked candidates can be booked, with the confirmation of the first such
\* candidate, and a failure carries a message
C22_SuccessIffFirstBookable ==
    (HandlerDone /\ hranked # << >>) =>
        /\ hpc = "returned"
        /\ hresult.success <=> BookableAmongFirst # {}
        /\ hresult.success =>
              \E i \in BookableAmongFirst :
                  /\ \A j \in BookableAmongFirst : i <= j
                  /\ hresult.confirmation_code.id = hranked[i].id
        /\ ~hresult.success => hresult.message \notin {NoMessage, ""}

\* credentials or slot options that are missing or malformed
BadConfigs ==
    {"bad_credentials", "no_slug", "bad_time", "bad_expiry", "bad_expiry_number", "bad_options"}

\* C23: with missing or malformed credentials or options the handler returns
\* a failure with a message, has made no external call, and lets no exception
\* escape
C23_BadConfigurationShortCircuits ==
    (hctx.provider \in {"clubspark", "better"} /\ hctx.config \in BadConfigs) =>
        /\ hcalls = << >>
        /\ hpc # "escaped"
        /\ hpc = "returned" =>
              /\ ~hresult.success
              /\ hresult.message \notin {NoMessage, ""}

\* the positions in the calls made of the call named name for candidate id
CallsOf(name, id) == { k \in 1..Len(hcalls) : hcalls[k] = ExternalCall(name, id) }

\* the amount left to pay by card for a ranked Better slot: the cart total
\* minus the credit applied to it
Payable(c) ==
    c.outcome.total -
        (IF hctx.useCredits /\ c.outcome.credit > 0 /\ c.outcome.apply = "ok"
         THEN c.outcome.credit ELSE 0)

\* the card sub-protocol for the slot ends with status authorised
Authorised(c) ==
    /\ c.outcome.prepare = "ok"
    /\ c.outcome.validate = "ok"
    /\ c.outcome.authorise = "ok"
    /\ c.outcome.status = "authorised"

\* C24: in the Better handler, complete_booking for a slot with a positive
\* payable amount is called only after prepare_checkout, validate_cvc and
\* authorise_checkout for it, in this order, ended with status authorised; a
\* slot whose card protocol ends otherwise gets no complete_booking, and for a
\* slot with nothing to pay none of the three card calls is made
C24_CompleteOnlyAfterAuthorised ==
    hctx.provider = "better" =>
        \A i \in 1..Len(hranked) :
            LET c == hranked[i]
            IN  /\ Cardinality(CallsOf("complete_booking", c.id)) <= 1
                /\ (Payable(c) > 0 /\ CallsOf("complete_booking", c.id) # {}) =>
                      /\ Authorised(c)
                      /\ \E p \in CallsOf("prepare_checkout", c.id) :
                         \E v \in CallsOf("validate_cvc", c.id) :
                         \E a \in CallsOf("authorise_checkout", c.id) :
                         \E d \in CallsOf("complete_booking", c.id) :
                             p < v /\ v < a /\ a < d
                /\ (Payable(c) > 0 /\ ~Authorised(c)) =>
                      CallsOf("complete_booking", c.id) = {}
                /\ Payable(c) <= 0 =>
                      /\ CallsOf("prepare_checkout", c.id) = {}
                      /\ CallsOf("validate_cvc", c.id) = {}
                      /\ CallsOf("authorise_checkout", c.id) = {}

C24_Witness ==
    /\ hctx.provider = "better"
    /\ hpc = "returned"
    /\ hresult.success
    /\ \E i \in 1..Len(hranked) :
          /\ CallsOf("authorise_checkout", hranked[i].id) # {}
          /\ CallsOf("complete_booking", hranked[i].id) = {}
    /\ \E i \in 1..Len(hranked) :
          /\ Payable(hranked[i]) > 0
          /\ Payable(hranked[i]) < hranked[i].outcome.total
          /\ CallsOf("complete_booking", hranked[i].id) # {}

\* the index of a preference list of length n of which the entries at the
\* positions matches fit the candidate: the first position from 0, n when the
\* list is non-empty and nothing fits, 0 when the list is empty
PreferenceIndex(matches, n) ==
    IF n = 0 THEN 0
    ELSE IF matches = {} THEN n
    ELSE (CHOOSE i \in matches : \A j \in matches : i <= j) - 1

\* the preferred resources the handler ranks by
PreferredResources ==
    IF hctx.provider = "clubspark" THEN preferred_courts(hctx.targetCourts)
    ELSE normalize_courts(hctx.targetCourts)

\* the preferred resource fits the candidate: equal to the resource name for
\* Clubspark, contained in the location name whatever the case for Better
ResourceMatch(c, preferred) ==
    IF hctx.provider = "clubspark" THEN preferred = ResourceName(c)
    ELSE Contains(lower(c.name), lower(preferred))

\* C25: the rank of every ranked candidate of both providers is
\* 100 x timeIndex + resourceIndex, each index being the position of the
\* match, the list length when the non-empty list has no match, 0 when the
\* list is empty
C25_RankIsWeightedIndexSum ==
    \A k \in 1..Len(hranked) :
        LET c == hranked[k]
            times == preferred_times(hctx)
        IN  c.rank =
              100 * PreferenceIndex({ i \in 1..Len(times) : times[i] = c.time }, Len(times))
              + PreferenceIndex({ i \in 1..Len(PreferredResources) :
                                     ResourceMatch(c, PreferredResources[i]) },
                                Len(PreferredResources))

\* the preferred times of the execution: targetTimes, or the slot's own start
\* time when there are none
PreferredTimeSet == { preferred_times(hctx)[i] : i \in 1..Len(preferred_times(hctx)) }

\* the start time of the candidate numbered id
StartTimeOf(id) == WindowTime(((id - 1) \div NumCourts) + 1)

\* C26: a handler attempts only candidates whose start time is one of the
\* preferred times, and when no window of the provider starts at a preferred
\* time it attempts nothing and does not succeed
C26_AttemptsOnlyPreferredTimes ==
    hctx.provider \in {"clubspark", "better"} =>
        /\ \A k \in 1..Len(Attempts) : StartTimeOf(Attempts[k].cand) \in PreferredTimeSet
        /\ (\A w \in 1..NumWindows : WindowTime(w) \notin PreferredTimeSet) =>
              /\ Attempts = << >>
              /\ ~hresult.success

\* the rows the worker's _process_task leaves when it executes the claimed
\* row id with the outcome env: the executor's commit or _mark_failed, then
\* the re-sync
WorkerLeaves(id, env) ==
    LET t == TaskById(tasks, id)
        x == execute_booking_task(t, slot, env, now)
        synced == x.raised = "none" \/ slot.is_active
        done == IF x.raised = "none" THEN PutTask(tasks, x.task)
                ELSE PutTask(tasks, mark_failed(t, x.message))
    IN  IF synced
        THEN sync_pending_tasks(done, nextId, slot, now, QueueCount, FALSE).tasks
        ELSE done

\* C27: for the same claimed task and the same execution outcome, run-now
\* leaves the task with the status and error message the worker leaves it
\* with, never in processing, and with an active slot the same re-synced rows
C27_RunNowMatchesWorker ==
    [][\A env \in ExecEnvs, code \in Codes :
          (manual \in TaskIds(tasks) /\ execute_task_now_run(env, code))
          => LET w == TaskById(WorkerLeaves(manual, env), manual)
                 u == TaskById(tasks', manual)
             IN  /\ u.status = w.status
                 /\ u.error_message = w.error_message
                 /\ u.status # "processing"
                 /\ (slot.exists /\ slot.is_active) => tasks' = WorkerLeaves(manual, env)]_vars

\* a step that ends a pass of run_forever
PassEnds ==
    \/ wloop.pos = "run_once" /\ wloop'.pos = "sleep"
    \/ wloop.pos = "in_pass" /\ wloop'.pos \in {"sleep", "run_once"}

\* C28: when a pass ends, run_forever sleeps exactly when the query of that
\* pass returned no due task; after a pass that found tasks it starts the next
\* pass without sleeping, whatever their executions returned
C28_SleepsIffNoDueTasks ==
    [][PassEnds => (wloop'.pos = "sleep" <=> wloop'.found = 0)]_vars

\* the attempt instant of the pending row has been reached
AttemptReached(t) == t.status = "pending" /\ t.attempt_at # None /\ t.attempt_at <= now

MAX_RESYNC_COUNT == 12

\* the while loop of sync_pending_tasks: the number of offsets it examines
RECURSIVE sync_loop_offsets(_, _, _, _, _, _, _)
sync_loop_offsets(s, nowv, count, nExisting, offset, added, existing_dates) ==
    IF ~(nExisting + added < count) THEN offset
    ELSE LET scheduled_at == calculate_next_occurrence(s, nowv, offset)
         IN  IF scheduled_at <= nowv \/ scheduled_at \in existing_dates
             THEN sync_loop_offsets(s, nowv, count, nExisting, offset + 1, added,
                                    existing_dates)
             ELSE sync_loop_offsets(s, nowv, count, nExisting, offset + 1, added + 1,
                                    existing_dates \cup {scheduled_at})

\* the pending rows a sync of the slot starts from
SyncKept(reset_existing) ==
    IF reset_existing THEN { t \in tasks : t.status # "pending" } ELSE tasks

\* the occurrences the loop of a sync skips as already used
SyncExistingDates(reset_existing) ==
    { t.scheduled_date : t \in existing_future_pending(SyncKept(reset_existing), now) }
    \cup previously_processed_dates(SyncKept(reset_existing), now)

\* the offsets a sync_pending_tasks(slot, count, reset_existing) called now examines
SyncOffsets(count, reset_existing) ==
    sync_loop_offsets(slot, now, count,
                      Cardinality(existing_future_pending(SyncKept(reset_existing), now)),
                      0, 0, SyncExistingDates(reset_existing))

\* the tasks a sync called now has to add
SyncMissing(count, reset_existing) ==
    LET n == Cardinality(existing_future_pending(SyncKept(reset_existing), now))
    IN  IF n < count THEN count - n ELSE 0

PendingAfterSync(ts, nid, nowv) ==
    { t.scheduled_date : t \in PendingTasks(sync_pending_tasks(ts, nid, slot, nowv,
                                                               QueueCount, FALSE).tasks) }

\* C31: when a success, failed or cancelled task whose occurrence is still
\* ahead has been deleted, a sync of its active slot creates no pending task
\* at that occurrence
C31_DeletedOccurrenceNotRecreated ==
    [][\A id \in TaskIds(tasks) :
          (/\ delete_booking_task(id, 204)
           /\ slot.exists /\ slot.is_active
           /\ TaskById(tasks, id).scheduled_date > now)
          => TaskById(tasks, id).scheduled_date \notin PendingAfterSync(tasks', nextId', now')]_vars

\* the recurrence rule of a slot: what fixes its occurrences
RuleOf(s) == <<s.frequency, s.day_of_week, s.day_of_month, s.time, s.timezone>>

\* the instant d is an occurrence of the rule of s: in the zone of s it falls
\* at the time of s, on its weekday (weekly, fortnightly) or on its day of the
\* month, clamped to the length of the month (monthly)
OnRule(s, d) ==
    LET local == ToLocal(d, s.timezone)
        n == DayIndex(local)
    IN  /\ MinuteOfDay(local) = s.time
        /\ IF s.frequency \in {"weekly", "fortnightly"}
           THEN UiWeekday(local) = s.day_of_week % 7
           ELSE LET length == monthrange(YearOfDay(n), MonthOfDay(n))
                    desired == IF s.day_of_month = None THEN 1 ELSE s.day_of_month
                IN  n - CivilToDay(YearOfDay(n), MonthOfDay(n), 1) + 1
                       = (IF desired < length THEN desired ELSE length)

\* C32: after a slot update that changes the recurrence rule of an active
\* slot, every future pending task of the slot is at an occurrence of the new
\* rule
C32_UpdateLeavesOnlyNewRule ==
    [][\A cfg \in SlotConfigs :
          (/\ update_booking_slot(cfg, TRUE)
           /\ slot.is_active
           /\ RuleOf(slot') # RuleOf(slot))
          => \A t \in FuturePending(tasks', now') : OnRule(slot', t.scheduled_date)]_vars

\* what sync_pending_tasks(slot, count, reset_existing), called on the rows ts
\* at the instant nowv, may do to the row t: leave it as it is, give it the
\* attempt instant computed from the slot's timing settings when it is a
\* future pending task, or delete it when it is pending and the call resets
SyncFrame(ts, after, t, nowv, reset_existing) ==
    LET same_id == { u \in after : u.id = t.id }
        retimed == [t EXCEPT !.attempt_at = calculate_attempt_at(slot, t.scheduled_date, nowv)]
    IN  /\ Cardinality(same_id) <= 1
        /\ t.status # "pending" => t \in after
        /\ t.status = "pending" =>
              \/ t \in after
              \/ reset_existing /\ slot.is_active /\ same_id = {}
              \/ ~reset_existing /\ slot.is_active /\ t.scheduled_date >= nowv
                   /\ retimed \in after

OwnExecution(id) ==
    \/ manual = id /\ \E env \in ExecEnvs, code \in Codes : execute_task_now_run(env, code)
    \/ wtask = id /\ \E env \in ExecEnvs : process_task_run(env)

\* the row of t is still there, in processing, at the same occurrence, and its
\* attempt instant is the same unless the step is a PATCH of the task
StaysProcessing(t) ==
    \E u \in tasks' :
        /\ u.id = t.id /\ u.status = "processing" /\ u.scheduled_date = t.scheduled_date
        /\ \/ u.attempt_at = t.attempt_at
           \/ \E body \in PatchBodies, code \in Codes : update_booking_task(t.id, body, code)

\* C34: a task in processing is left as it is by every step (no worker pass
\* selects it, no sync re-times, deletes or duplicates it, no request changes
\* or removes it) until its own execution writes success or failed
C34_ProcessingUntouched ==
    [][\A t \in tasks :
          t.status = "processing" =>
              /\ \/ StaysProcessing(t)
                 \/ /\ OwnExecution(t.id)
                    /\ \E u \in tasks' : u.id = t.id /\ u.status \in {"success", "failed"}
              /\ \A u \in tasks' \ tasks : u.id # t.id => u.scheduled_date # t.scheduled_date
              /\ (wtask' = t.id => wtask = t.id)
              /\ ~Due(t, now)]_vars

\* C36: in every reachable state, a slot that is inactive has no pending task
C36_InactiveSlotHasNoPending ==
    (slot.exists /\ ~slot.is_active) => PendingTasks(tasks) = {}

\* the step commits the claim of the task id (status processing, attempted_at
\* stamped), by the worker or by the run-now route
ClaimWritten(id) ==
    \/ process_task_claim /\ wpc' = "claimed" /\ wtask' = id
    \/ execute_task_now_claim(id, InFlight)

\* C35: with the worker running beside the API process, a claim is written
\* only on a task whose stored status is pending at that moment, so no task
\* is claimed twice and none is claimed after it was cancelled
C35_ClaimOnlyWhilePending ==
    [][\A id \in TaskIds(tasks) :
          ClaimWritten(id) => TaskById(tasks, id).status = "pending"]_vars

\* C37: a task is claimed for execution, by the worker or by the run-now
\* route, only when its slot is active at that moment: the booking handler is
\* not invoked for a task of an inactive slot
C37_ClaimOnlyForActiveSlot ==
    [][\A id \in TaskIds(tasks) : ClaimWritten(id) => slot.exists /\ slot.is_active]_vars

\* the occurrences of the rows ts lie on one 14-day grid (the zones are fixed
\* offsets, so a difference is the same in UTC and in the slot's zone)
OnFortnightGrid(ts) ==
    \A t, u \in ts : (t.scheduled_date - u.scheduled_date) % (14 * Day) = 0

\* C38: while the rule of a fortnightly slot is not edited, every step keeps
\* the occurrences of all its tasks, pending or handled, on a single 14-day
\* grid: a table of occurrences of the rule that lie on one grid is followed
\* by such a table
C38_FortnightlyGridKept ==
    [][(/\ slot.exists /\ slot' = slot
        /\ slot.frequency = "fortnightly"
        /\ \A t \in tasks : OnRule(slot, t.scheduled_date)
        /\ OnFortnightGrid(tasks))
       => OnFortnightGrid(tasks')]_vars

\* C39: right after a sync_pending_tasks call of the slot has returned,
\* every future pending task, created or re-timed by it, has its attempt
\* instant at or before its occurrence
C39_AttemptNotAfterOccurrence ==
    [][(\E count \in 1..(QueueCount + 1) : SyncReturned(count))
       => \A t \in FuturePending(tasks', now') : t.attempt_at <= t.scheduled_date]_vars

\* no occurrence has two pending rows in ts
OnePendingPerOccurrence(ts) ==
    \A t, u \in PendingTasks(ts) : t.scheduled_date = u.scheduled_date => t.id = u.id

\* C40: when the worker's sync_pending_tasks commits after a sync of the API
\* process ran between its queries and its commit, the table is one that the
\* two calls could leave when run one after the other: no occurrence gets a
\* second pending task, and the future pending tasks do not grow beyond the
\* queue size (or what was there)
C40_InterleavedSyncSerializable ==
    [][(process_task_sync_commit /\ OnePendingPerOccurrence(tasks))
       => /\ OnePendingPerOccurrence(tasks')
          /\ \/ Cardinality(FuturePending(tasks', now')) <= QueueCount
             \/ Cardinality(FuturePending(tasks', now'))
                   <= Cardinality(FuturePending(tasks, now))]_vars

====
